---- MODULE Spec2Model ----
(***************************************************************************)
(* Streaming response processor of the Angular front end:                  *)
(*   SimplifiedChatComponent   (components/simplified-chat)                *)
(*   MessageProcessingService  (core/services/message-processing.service)  *)
(*   LongRunningEventsService  (core/services/long-running-events.service) *)
(*   OAuthHandlingService      (core/services/oauth-handling.service)      *)
(* The message list is an array of object references; streamingTextMessage *)
(* is a reference that may alias an element of the array.  References are  *)
(* modelled as object ids (oids) into a heap.                              *)
(***************************************************************************)
EXTENDS Integers, Sequences, FiniteSets, TLC

(* ---------------------------- bounds ----------------------------------- *)
MaxObjs    == 3    \* message objects allocated in one behaviour
MaxStreams == 2    \* sendMessage calls that get past the blank-input check
MaxTextLen == 2    \* characters in one message text
MaxParts   == 3    \* parts of one chunk handed to the tracker
MaxAdds    == 3    \* invocations added to the tracker in one behaviour
MaxEvents  == 2    \* events of one stored session
MaxChunks  == 2    \* chunks of one continuation stream

NULL == 0

(* ---------------------------- text ------------------------------------- *)
\* A string is a sequence of characters; " " stands for any white space.
\* "P" and "A" stand for the marker sequences /*PLANNING*/ and /*ACTION*/.
Chars == {"a", "b", " ", "P", "A"}

RECURSIVE trimEnd(_)
\* String.prototype.trimEnd: drop the trailing white space
trimEnd(t) ==
  IF t = <<>> THEN <<>>
  ELSE IF t[Len(t)] = " " THEN trimEnd(SubSeq(t, 1, Len(t) - 1))
  ELSE t

\* JavaScript truthiness of a string: the empty string is falsy
Truthy(t) == t # <<>>

\* userInput is non-empty (no trim)
NonBlank_NoTrim(t) == t # <<>>

\* userInput.trim() is non-empty
NonBlank(t) == \E i \in 1..Len(t) : t[i] # " "

(* ---------------------------- messages --------------------------------- *)
\* ChatMessage.  kind names the populated optional field; srcs is an
\* observation: the streams whose text parts have been written into the text
\* field (recorded when watch = "sources", empty otherwise).
Msg(role, kind, text, thought, name, srcs) ==
  [role |-> role, kind |-> kind, text |-> text, thought |-> thought,
   name |-> name, srcs |-> srcs]

LoadingMsg == Msg("bot", "loading", <<>>, FALSE, "", {})

\* lastMessage?.isLoading
LastIsLoading(msgs, heap) ==
  /\ Len(msgs) > 0
  /\ heap[msgs[Len(msgs)]].kind = "loading"

\* The component and assembler state threaded through one handler.
\*   messages  this.messages (array of references)
\*   heap      the referenced ChatMessage objects
\*   stm       this.streamingTextMessage
\*   thinking  current value of isModelThinkingSubject
\*   nextOid   allocation counter for new objects
\*   run       observation of the current partial/final sequence (history only)
Alloc(st, m) ==
  [st EXCEPT !.heap = st.heap @@ (st.nextOid :> m), !.nextOid = st.nextOid + 1]

\* Array.prototype.splice(len-1, 0, x)
SpliceBeforeLast(msgs, x) ==
  SubSeq(msgs, 1, Len(msgs) - 1) \o <<x>> \o <<msgs[Len(msgs)]>>

\* insertMessageBeforeLoadingMessage without the placeholder test
insertMessage_AlwaysAppends(msgs, heap, oid) == Append(msgs, oid)

\* insertMessageBeforeLoadingMessage, on the array alone
insertMessageBeforeLoadingMessage(msgs, heap, oid) ==
  IF LastIsLoading(msgs, heap) THEN SpliceBeforeLast(msgs, oid)
  ELSE Append(msgs, oid)

\* allocate m and insert its reference
Insert(st, m) ==
  LET st1 == Alloc(st, m)
  IN  [st1 EXCEPT !.messages =
         insertMessageBeforeLoadingMessage(st.messages, st1.heap, st.nextOid)]

\* The combineLatest([getLoadingState(), isModelThinkingSubject]) callback.
LoadingCallback(st, isLoading, isModelThinking) ==
  IF isLoading
  THEN IF ~LastIsLoading(st.messages, st.heap) /\ st.stm = NULL
       THEN LET st1 == Alloc(st, LoadingMsg)
            IN  [st1 EXCEPT !.messages = Append(st.messages, st.nextOid)]
       ELSE st
  ELSE IF LastIsLoading(st.messages, st.heap) /\ ~isModelThinking
       THEN [st EXCEPT !.messages = SubSeq(st.messages, 1, Len(st.messages) - 1),
                       !.heap = [o \in DOMAIN st.heap \ {st.messages[Len(st.messages)]}
                                   |-> st.heap[o]]]
       ELSE st

\* isModelThinkingSubject.next(v): store v and run the subscriber synchronously
ThinkingNext(st, v, isLoading) ==
  LoadingCallback([st EXCEPT !.thinking = v], isLoading, v)

(* ---------------------------- parts and frames ------------------------- *)
\* A Part: text ("" when absent), the thought flag, and the populated payload
\* field ("none" when the part carries text or the thought flag only).
Part(text, thought, payload) == [text |-> text, thought |-> thought, payload |-> payload]

TextPart(t)    == Part(t, FALSE, "none")
ThoughtPart(t) == Part(t, TRUE, "none")
BareThought    == Part(<<>>, TRUE, "none")
PayloadPart(k) == Part(<<>>, FALSE, k)

\* text overwritten or appended by a text part of the streams src
WithText(m, t, src) == [m EXCEPT !.text = t, !.srcs = m.srcs \cup src]

\* processPart with the final branch inserting a message of its own
processPart_FinalInserts(st, part, chunk, isLoading) ==
  IF Truthy(part.text) THEN
    LET st1 == ThinkingNext(st, FALSE, isLoading) IN
    IF part.thought THEN
      Insert(st1, Msg("bot", "text", part.text, TRUE, "", chunk.src))
    ELSE IF chunk.partial THEN
      IF st1.stm = NULL
      THEN [Insert(st1, Msg("bot", "text", part.text, FALSE, "", chunk.src))
              EXCEPT !.stm = st1.nextOid]
      ELSE [st1 EXCEPT !.heap[st1.stm] =
              WithText(@, st1.heap[st1.stm].text \o part.text, chunk.src)]
    ELSE Insert(st1, Msg("bot", "text", part.text, FALSE, "", chunk.src))
  ELSE IF part.payload \in {"functionCall", "functionResponse", "inlineData"} THEN
    Insert(st, Msg("bot", part.payload, <<>>, FALSE,
                   IF part.payload = "inlineData" THEN "" ELSE "tool", {}))
  ELSE st

\* processPart with a partial fragment replacing the streaming text
processPart_PartialReplaces(st, part, chunk, isLoading) ==
  IF Truthy(part.text) THEN
    LET st1 == ThinkingNext(st, FALSE, isLoading) IN
    IF part.thought THEN
      Insert(st1, Msg("bot", "text", part.text, TRUE, "", chunk.src))
    ELSE IF st1.stm = NULL
    THEN [Insert(st1, Msg("bot", "text", part.text, FALSE, "", chunk.src))
            EXCEPT !.stm = IF chunk.partial THEN st1.nextOid ELSE NULL]
    ELSE [st1 EXCEPT !.heap[st1.stm] = WithText(@, part.text, chunk.src)]
  ELSE IF part.payload \in {"functionCall", "functionResponse", "inlineData"} THEN
    Insert(st, Msg("bot", part.payload, <<>>, FALSE,
                   IF part.payload = "inlineData" THEN "" ELSE "tool", {}))
  ELSE st

\* processPart with a thought text part ending the streaming message
processPart_ThoughtEndsStreaming(st, part, chunk, isLoading) ==
  IF Truthy(part.text) THEN
    LET st1 == ThinkingNext(st, FALSE, isLoading) IN
    IF part.thought THEN
      [Insert(st1, Msg("bot", "text", part.text, TRUE, "", chunk.src))
         EXCEPT !.stm = NULL]
    ELSE IF chunk.partial THEN
      IF st1.stm = NULL
      THEN [Insert(st1, Msg("bot", "text", part.text, FALSE, "", chunk.src))
              EXCEPT !.stm = st1.nextOid]
      ELSE [st1 EXCEPT !.heap[st1.stm] =
              WithText(@, st1.heap[st1.stm].text \o part.text, chunk.src)]
    ELSE
      IF st1.stm # NULL
      THEN [st1 EXCEPT !.heap[st1.stm] = WithText(@, part.text, chunk.src)]
      ELSE Insert(st1, Msg("bot", "text", part.text, FALSE, "", chunk.src))
  ELSE IF part.payload \in {"functionCall", "functionResponse", "inlineData"} THEN
    Insert(st, Msg("bot", part.payload, <<>>, FALSE,
                   IF part.payload = "inlineData" THEN "" ELSE "tool", {}))
  ELSE st

\* SimplifiedChatComponent.processPart(part, chunkJson); isLoading is the
\* latest value of the loading state seen by the combineLatest subscriber.
processPart(st, part, chunk, isLoading) ==
  IF Truthy(part.text) THEN
    LET st1 == ThinkingNext(st, FALSE, isLoading) IN
    IF part.thought THEN
      Insert(st1, Msg("bot", "text", part.text, TRUE, "", chunk.src))
    ELSE IF chunk.partial THEN
      IF st1.stm = NULL
      THEN [Insert(st1, Msg("bot", "text", part.text, FALSE, "", chunk.src))
              EXCEPT !.stm = st1.nextOid]
      ELSE [st1 EXCEPT !.heap[st1.stm] =
              WithText(@, st1.heap[st1.stm].text \o part.text, chunk.src)]
    ELSE
      IF st1.stm # NULL
      THEN [st1 EXCEPT !.heap[st1.stm] = WithText(@, part.text, chunk.src)]
      ELSE Insert(st1, Msg("bot", "text", part.text, FALSE, "", chunk.src))
  ELSE IF part.payload = "functionCall" THEN
    Insert(st, Msg("bot", "functionCall", <<>>, FALSE, "tool", {}))
  ELSE IF part.payload = "functionResponse" THEN
    Insert(st, Msg("bot", "functionResponse", <<>>, FALSE, "tool", {}))
  ELSE IF part.payload = "inlineData" THEN
    Insert(st, Msg("bot", "inlineData", <<>>, FALSE, "", {}))
  ELSE st

\* String.prototype.replace(c, ''): remove the first occurrence of c
RemoveFirst(t, c) ==
  IF \E i \in 1..Len(t) : t[i] = c
  THEN LET i == CHOOSE k \in 1..Len(t) : t[k] = c /\ \A j \in 1..(k - 1) : t[j] # c
       IN  SubSeq(t, 1, i - 1) \o SubSeq(t, i + 1, Len(t))
  ELSE t

\* MessageProcessingService.processThoughtText
processThoughtText(t) == RemoveFirst(RemoveFirst(t, "P"), "A")

\* MessageProcessingService.processPart, with insertMessageCallback bound to
\* insertMessageBeforeLoadingMessage and the returned streamingTextMessage
\* stored back by the caller.
SvcProcessPart(st, part, chunk, isLoading) ==
  IF Truthy(part.text) THEN
    LET st1 == ThinkingNext(st, FALSE, isLoading) IN
    IF part.thought THEN
      Insert(st1, Msg("bot", "text", processThoughtText(trimEnd(part.text)), TRUE, "",
                      chunk.src))
    ELSE IF chunk.partial THEN
      IF st1.stm = NULL
      THEN [Insert(st1, Msg("bot", "text", part.text, FALSE, "", chunk.src))
              EXCEPT !.stm = st1.nextOid]
      ELSE [st1 EXCEPT !.heap[st1.stm] =
              WithText(@, st1.heap[st1.stm].text \o part.text, chunk.src)]
    ELSE
      IF st1.stm # NULL
      THEN [st1 EXCEPT !.heap[st1.stm] = WithText(@, trimEnd(part.text), chunk.src)]
      ELSE Insert(st1, Msg("bot", "text", trimEnd(part.text), FALSE, "", chunk.src))
  ELSE IF part.payload = "functionCall" THEN
    Insert(st, Msg("bot", "functionCall", <<>>, FALSE, "tool", {}))
  ELSE IF part.payload = "functionResponse" THEN
    Insert(st, Msg("bot", "functionResponse", <<>>, FALSE, "tool", {}))
  ELSE IF part.payload = "inlineData" THEN
    Insert(st, Msg("bot", "inlineData", <<>>, FALSE, "", {}))
  ELSE IF part.payload = "executableCode" THEN
    Insert(st, Msg("bot", "functionCall", <<>>, FALSE, "code_execution", {}))
  ELSE IF part.payload = "codeExecutionResult" THEN
    Insert(st, Msg("bot", "functionResponse", <<>>, FALSE, "code_execution", {}))
  ELSE IF part.thought THEN
    ThinkingNext(st, TRUE, isLoading)
  ELSE st

(* ---------------------------- observation ------------------------------ *)
\* The sequence of non-thought text parts one stream has applied since a
\* partial text part found streamingTextMessage null:
\*   frags    the partial fragments, in arrival order
\*   made     the non-thought bot text messages created for them
\*   fin      the text of the non-partial part that ended the sequence
IdleRun == [phase |-> "idle", stream |-> 0, frags |-> <<>>, made |-> {},
            fin |-> <<>>]

\* bot text messages that are not thoughts, allocated between st and st2
NewText(st, st2) ==
  {o \in DOMAIN st2.heap : /\ o >= st.nextOid
                           /\ st2.heap[o].kind = "text"
                           /\ ~st2.heap[o].thought}

Observe(st, st2, part, chunk) ==
  IF ~Truthy(part.text) \/ part.thought THEN st.run
  ELSE IF chunk.partial THEN
    IF st.run.phase = "partial" /\ st.run.stream = chunk.stream
    THEN [st.run EXCEPT !.frags = Append(@, part.text),
                        !.made = @ \cup NewText(st, st2)]
    ELSE IF st.stm = NULL
    THEN [IdleRun EXCEPT !.phase = "partial", !.stream = chunk.stream,
                         !.frags = <<part.text>>, !.made = NewText(st, st2)]
    ELSE IdleRun
  ELSE
    IF st.run.phase = "partial" /\ st.run.stream = chunk.stream
    THEN [st.run EXCEPT !.phase = "final", !.fin = part.text,
                        !.made = @ \cup NewText(st, st2)]
    ELSE IdleRun

\* why processStreamChunk applies no part of the frame ("none" when it does)
SkipReason(frame) ==
  IF frame.raw = "malformed" THEN "malformed"
  ELSE IF frame.raw = "errorPrefix" \/ frame.error THEN "error"
  ELSE "none"

\* no skipped frame to report
NoSkip == [kind |-> "none", stream |-> 0]

(* ---------------------------- history replay --------------------------- *)
Range(q) == {q[i] : i \in 1..Len(q)}

RECURSIVE SelectParts(_, _)
\* parts.forEach: textParts when wantText, otherParts otherwise
SelectParts(parts, wantText) ==
  IF parts = <<>> THEN <<>>
  ELSE LET rest == SelectParts(Tail(parts), wantText)
       IN  IF Truthy(Head(parts).text) = wantText THEN <<Head(parts)>> \o rest ELSE rest

RECURSIVE JoinText_LastFirst(_)
\* the join with the texts taken from the last part to the first
JoinText_LastFirst(parts) ==
  IF parts = <<>> THEN <<>> ELSE JoinText_LastFirst(Tail(parts)) \o Head(parts).text

RECURSIVE JoinText(_)
\* textParts.map(part => part.text).join('')
JoinText(parts) ==
  IF parts = <<>> THEN <<>> ELSE Head(parts).text \o JoinText(Tail(parts))

\* the message built for one element of otherParts
OtherMessage(role, part) ==
  IF part.payload = "functionCall" THEN Msg(role, "functionCall", <<>>, FALSE, "tool", {})
  ELSE IF part.payload = "functionResponse" THEN Msg(role, "functionResponse", <<>>, FALSE, "tool", {})
  ELSE IF part.payload = "inlineData" THEN Msg(role, "inlineData", <<>>, FALSE, "", {})
  ELSE Msg(role, "empty", <<>>, FALSE, "", {})

\* the messages one stored event contributes
EventMessages(event) ==
  LET role      == IF event.author = "user" THEN "user" ELSE "bot"
      textParts == SelectParts(event.parts, TRUE)
      others    == SelectParts(event.parts, FALSE)
      textMsg   == IF textParts # <<>>
                   THEN <<Msg(role, "text", JoinText(textParts),
                              \E i \in 1..Len(textParts) : textParts[i].thought, "", {})>>
                   ELSE <<>>
  IN  IF ~event.hasParts THEN <<>>
      ELSE textMsg \o [i \in 1..Len(others) |-> OtherMessage(role, others[i])]

RECURSIVE transformSessionEvents(_)
\* SimplifiedChatComponent.transformSessionEvents: a list of message values
transformSessionEvents(events) ==
  IF events = <<>> THEN <<>>
  ELSE EventMessages(Head(events)) \o transformSessionEvents(Tail(events))

(* ---------------------------- inputs ----------------------------------- *)
Frag1 == <<"a">>
Frag2 == <<" ">>
\* texts of partial chunks, and texts of non-partial chunks
PartialFrags == {Frag1, Frag2}
FinalTexts   == {<<"a", " ">>}

\* A raw frame handed to processStreamChunk.
\*   raw = "errorPrefix"  the string starts with {"error"
\*   raw = "malformed"    JSON.parse throws
\*   raw = "json"         parses; error is the truthiness of chunkJson.error
Frame(raw, error, partial, parts) ==
  [raw |-> raw, error |-> error, partial |-> partial, parts |-> parts]

MalformedFrame   == Frame("malformed", FALSE, FALSE, <<>>)
ErrorPrefixFrame == Frame("errorPrefix", TRUE, FALSE, <<>>)
\* a chunk with the error field set that also carries a content part
ErrorFrame       == Frame("json", TRUE, TRUE, <<TextPart(Frag1)>>)

TextFrames ==
  {Frame("json", FALSE, TRUE, <<TextPart(t)>>) : t \in PartialFrags}
    \cup {Frame("json", FALSE, FALSE, <<TextPart(t)>>) : t \in FinalTexts}

Frames ==
  {MalformedFrame, ErrorPrefixFrame, ErrorFrame}
    \cup TextFrames
    \cup {Frame("json", FALSE, FALSE, <<PayloadPart("functionCall")>>)}

\* chunks with one thought text part, partial and not
ThoughtFrames == {Frame("json", FALSE, p, <<ThoughtPart(Frag1)>>) : p \in BOOLEAN}

\* the payload fields of a part that carries no text
Payloads ==
  {"functionCall", "functionResponse", "inlineData", "executableCode",
   "codeExecutionResult"}

\* a chunk with one part that carries the payload k
PayloadFrame(k) == Frame("json", FALSE, FALSE, <<PayloadPart(k)>>)

\* a chunk with one part that has the thought flag and no text
BareThoughtFrame == Frame("json", FALSE, TRUE, <<BareThought>>)

\* the chunks of a stream whose parts are of every kind processPart tests
PartFrames ==
  ThoughtFrames
    \cup {PayloadFrame(k) : k \in Payloads}
    \cup {BareThoughtFrame,
          Frame("json", FALSE, TRUE, <<TextPart(Frag1)>>),
          Frame("json", FALSE, FALSE, <<TextPart(Frag1 \o Frag2)>>)}

\* userInput and the number of selected files of a sendMessage call
SendInputs == {<<"", 0>>, <<" ", 0>>, <<"a", 0>>, <<"a", 1>>}
InputText(x) == IF x[1] = "" THEN <<>> ELSE <<x[1]>>

\* a stored event; hasParts is the truthiness of event.content?.parts
Event(author, parts) == [author |-> author, hasParts |-> TRUE, parts |-> parts]

\* a stored event without content, or with content without parts
EventWithoutParts(author) == [author |-> author, hasParts |-> FALSE, parts |-> <<>>]

Histories == {<<>>, <<Event("model", <<TextPart(Frag1)>>)>>}

(* ------------------- long-running invocation tracker -------------------- *)
\* args.authConfig.exchangedAuthCredential.oauth2 of a function call; present
\* is FALSE when some link of that chain is missing
Credential(present, authUri, authResponseUri, redirectUri) ==
  [present |-> present, authUri |-> authUri,
   authResponseUri |-> authResponseUri, redirectUri |-> redirectUri]

NoCredential == Credential(FALSE, "", "", "")
OAuthArgs    == Credential(TRUE, "https://idp/auth?redirect_uri=old", "", "old")

\* a part of chunkJson.content.parts as the tracker reads it
FunctionCallPart(id, name, args) ==
  [functionCall |-> TRUE, id |-> id, name |-> name, args |-> args]

NoCallPart == [functionCall |-> FALSE, id |-> "", name |-> "", args |-> NoCredential]

\* LongRunningEvent; seq is the rank of the object among those ever added
LongRunningEvent(id, name, args, status, seq) ==
  [id |-> id, name |-> name, args |-> args, status |-> status, seq |-> seq]

\* pendingIds.includes(id)
Includes(ids, id) == \E i \in 1..Len(ids) : ids[i] = id

\* extractAsyncFunctionsFromParts taking every function call
extractAsyncFunctionsFromParts_IgnoresPendingIds(pendingIds, parts) ==
  LET RECURSIVE Loop(_, _)
      Loop(i, out) ==
        IF i > Len(parts) THEN out
        ELSE LET part == parts[i]
             IN  IF part.functionCall
                 THEN Loop(i + 1, Append(out, LongRunningEvent(
                        part.id, part.name, part.args, "pending", 0)))
                 ELSE Loop(i + 1, out)
  IN  Loop(1, <<>>)

\* extractAsyncFunctionsFromParts(pendingIds, parts)
extractAsyncFunctionsFromParts(pendingIds, parts) ==
  LET RECURSIVE Loop(_, _)
      Loop(i, out) ==
        IF i > Len(parts) THEN out
        ELSE LET part == parts[i]
             IN  IF part.functionCall /\ Includes(pendingIds, part.id)
                 THEN Loop(i + 1, Append(out, LongRunningEvent(
                        part.id, part.name, part.args, "pending", 0)))
                 ELSE Loop(i + 1, out)
  IN  Loop(1, <<>>)

\* this.longRunningEvents.push(...events); the objects get their rank
Ranked(events, first) ==
  [i \in 1..Len(events) |-> [events[i] EXCEPT !.seq = first + i - 1]]

\* addLongRunningEvents(events)
addLongRunningEvents(list, events, first) ==
  list \o Ranked(events, first)

\* removeFinishedEvents deleting only the first invocation of each id
removeFinishedEvents_FirstMatchOnly(list, finishedIds) ==
  LET firstOf(i) == \A j \in 1..(i - 1) : list[j].id # list[i].id
      RECURSIVE Keep(_, _)
      Keep(i, out) ==
        IF i > Len(list) THEN out
        ELSE IF list[i].id \in finishedIds /\ firstOf(i) THEN Keep(i + 1, out)
        ELSE Keep(i + 1, Append(out, list[i]))
  IN  Keep(1, <<>>)

\* removeFinishedEvents(finishedEvents), finishedIds the ids of finishedEvents
removeFinishedEvents(list, finishedIds) ==
  SelectSeq(list, LAMBDA e : e.id \notin finishedIds)

\* updateEventStatus(eventId, status): find() gives the first invocation
updateEventStatus(list, eventId, status) ==
  LET hits == {i \in 1..Len(list) : list[i].id = eventId}
  IN  IF hits = {} THEN list
      ELSE LET k == CHOOSE i \in hits : \A j \in hits : i <= j
           IN  [list EXCEPT ![k].status = status]

\* event.status === 'pending' && event.args?.authConfig?...?.oauth2
PendingOAuth(e) == e.status = "pending" /\ e.args.present

NoEvent == LongRunningEvent("", "", NoCredential, "none", 0)

\* getFirstPendingOAuthEvent without the status test
getFirstPendingOAuthEvent_AnyStatus(list) ==
  LET hits == {i \in 1..Len(list) : list[i].args.present}
  IN  IF hits = {} THEN NoEvent
      ELSE list[CHOOSE i \in hits : \A j \in hits : i <= j]

\* getFirstPendingOAuthEvent(): find() gives the first match or undefined
getFirstPendingOAuthEvent(list) ==
  LET hits == {i \in 1..Len(list) : PendingOAuth(list[i])}
  IN  IF hits = {} THEN NoEvent
      ELSE list[CHOOSE i \in hits : \A j \in hits : i <= j]

\* hasPendingOAuthEvents()
hasPendingOAuthEvents(list) == \E i \in 1..Len(list) : PendingOAuth(list[i])

\* inputs of the tracker
TrackerParts ==
  {FunctionCallPart("a", "lookup", NoCredential),
   FunctionCallPart("a", "auth", OAuthArgs),
   FunctionCallPart("b", "auth", OAuthArgs),
   NoCallPart}

RECURSIVE SeqsUpTo(_, _)
SeqsUpTo(S, n) ==
  IF n = 0 THEN {<<>>}
  ELSE LET shorter == SeqsUpTo(S, n - 1)
       IN  shorter \cup {Append(q, x) : q \in shorter, x \in S}

PendingIdLists == {<<>>, <<"a">>, <<"b">>, <<"a", "b">>, <<"c">>}

PartLists == SeqsUpTo(TrackerParts, MaxParts)

\* the chunks whose long-running calls are added to the tracker
AddInputs ==
  {<<ids, ps>> \in PendingIdLists \X SeqsUpTo(TrackerParts, 2) :
     /\ Len(ids) >= 1
     /\ Len(ps) >= 1
     /\ \A i \in 1..Len(ps) : ps[i].functionCall}

FinishedIdSets == {{"a"}, {"b"}, {"a", "b"}, {"c"}}

Statuses == {"running", "completed"}

ExtractCall(pendingIds, parts, returned, events) ==
  [pendingIds |-> pendingIds, parts |-> parts, returned |-> returned,
   events |-> events]

NoExtractCall == ExtractCall(<<>>, <<>>, FALSE, <<>>)

(* ------------------------ OAuth continuation --------------------------- *)
\* window.location.origin and URLUtil.getBaseUrlWithoutPath() of this client
Origin      == "https://client"
RedirectUri == "https://client/"

OtherOAuthArgs == Credential(TRUE, "https://idp2/auth", "stale", "old")

\* longRunningEvents[0] of a handleLongRunningToolOAuth call
OAuthFuncs ==
  {LongRunningEvent("a", "auth", OAuthArgs, "pending", 1),
   LongRunningEvent("b", "consent", OtherOAuthArgs, "pending", 1),
   LongRunningEvent("a", "lookup", NoCredential, "pending", 1)}

\* appName, userId, sessionId and functionCallEventId of the call
Context(appName, userId, sessionId, eventId) ==
  [appName |-> appName, userId |-> userId, sessionId |-> sessionId,
   functionCallEventId |-> eventId]

Contexts == {Context("app1", "u1", "s1", "e1"), Context("app2", "u2", "s2", "e2")}

OAuthCall(func, ctx) == [func |-> func, ctx |-> ctx]

NoOAuthCall == OAuthCall(NoEvent, Context("", "", "", ""))

\* a message event dispatched to window
MessageOf(origin, authResponseUrl) ==
  [origin |-> origin, authResponseUrl |-> authResponseUrl]

NoMessage == MessageOf("", "")

Messages ==
  {MessageOf(o, u) : o \in {Origin, "https://other"},
                     u \in {"", "https://client/cb?code=1", "https://client/cb?code=2"}}

\* the chunks the continuation stream delivers: one that parses and one
\* that JSON.parse rejects
ContinuationChunks ==
  {Frame("json", FALSE, FALSE, <<TextPart(Frag1)>>), MalformedFrame}

\* JSON.parse(chunk) of a chunk that parses
ParseChunk(chunk) ==
  [error |-> chunk.error, partial |-> chunk.partial, parts |-> chunk.parts]

Continuation(arrived, responses, handed) ==
  [arrived |-> arrived, responses |-> responses, handed |-> handed]

NoContinuation == Continuation(<<>>, <<>>, <<>>)

\* the promise returned by openOAuthPopup
Promise(state, value) == [state |-> state, value |-> value]

NoPromise == Promise("none", "")

\* the AgentRunRequest of sendMessage; newMessage.parts comes from
\* getUserMessageParts()
UserRunRequest(ctx) ==
  [appName |-> ctx.appName, userId |-> ctx.userId, sessionId |-> ctx.sessionId,
   newMessage |-> [role |-> "user", parts |-> <<[user_parts |-> TRUE]>>],
   streaming |-> TRUE]

\* the component's appName, userId and sessionId inputs
ComponentContext == Context("app1", "u1", "s1", "")

\* sendOAuthResponse with the invocation's own, unchanged auth config
sendOAuthResponse_KeepsAuthConfig(func, authResponseUrl, appName, userId, sessionId, functionCallEventId) ==
  [appName |-> appName, userId |-> userId, sessionId |-> sessionId,
   newMessage |-> [role |-> "user",
                   parts |-> <<[function_response |->
                                  [id |-> func.id, name |-> func.name,
                                   response |-> func.args]]>>],
   functionCallEventId |-> functionCallEventId]

\* the reference func.args.authConfig holds during sendOAuthResponse
AuthConfigRef == 1

\* an assignment that copies the reference: both names denote one object
structuredClone_SameObject(store, ref) == [store |-> store, ref |-> ref]

\* structuredClone(store[ref]): a new object with the same fields
structuredClone(store, ref) ==
  LET new == 1 + Cardinality(DOMAIN store)
  IN  [store |-> store @@ (new :> store[ref]), ref |-> new]

\* the objects of sendOAuthResponse after its two assignments, and the
\* reference of the variable authConfig
AuthConfigObjects(func, authResponseUrl) ==
  LET c == structuredClone([r \in {AuthConfigRef} |-> func.args], AuthConfigRef)
  IN  [store |-> [c.store EXCEPT ![c.ref].authResponseUri = authResponseUrl,
                                 ![c.ref].redirectUri = RedirectUri],
       ref |-> c.ref]

\* the invocation object func as sendOAuthResponse leaves it
FuncAfterSend(func, authResponseUrl) ==
  [func EXCEPT !.args = AuthConfigObjects(func, authResponseUrl).store[AuthConfigRef]]

\* the request sendOAuthResponse hands to agentService.runSse
sendOAuthResponse(func, authResponseUrl, appName, userId, sessionId, functionCallEventId) ==
  LET objs == AuthConfigObjects(func, authResponseUrl)
      authConfig == objs.store[objs.ref]
  IN  [appName |-> appName, userId |-> userId, sessionId |-> sessionId,
       newMessage |-> [role |-> "user",
                       parts |-> <<[function_response |->
                                      [id |-> func.id, name |-> func.name,
                                       response |-> authConfig]]>>],
       functionCallEventId |-> functionCallEventId]

(* ------------------------ replay and live ------------------------------ *)
\* the parts a stored event or a live chunk may carry
ReplayParts ==
  {TextPart(Frag1), TextPart(Frag2), ThoughtPart(Frag1),
   PayloadPart("functionCall"), PayloadPart("functionResponse"),
   PayloadPart("inlineData"), PayloadPart("executableCode")}

Replay(parts, returned, stored, live) ==
  [parts |-> parts, returned |-> returned, stored |-> stored, live |-> live]

NoReplay == Replay(<<>>, FALSE, <<>>, <<>>)

(* ------------------------ stored sessions ------------------------------ *)
\* the content parts a stored event may carry: none, text parts only, other
\* parts only, and text parts before, after and around another part
StoredPartLists ==
  {<<>>,
   <<TextPart(Frag1)>>,
   <<TextPart(Frag1), TextPart(Frag2)>>,
   <<PayloadPart("functionCall")>>,
   <<PayloadPart("functionResponse"), TextPart(Frag1)>>,
   <<TextPart(Frag2), PayloadPart("inlineData"), TextPart(Frag1)>>}

\* the events a stored session may hold
StoredEvents ==
  {Event(a, ps) : a \in {"user", "model"}, ps \in StoredPartLists}
    \cup {EventWithoutParts(a) : a \in {"user", "model"}}

\* one call of transformSessionEvents: its argument, whether it has returned,
\* and the list it returned
Loaded(events, returned, result) ==
  [events |-> events, returned |-> returned, result |-> result]

NoLoaded == Loaded(<<>>, FALSE, <<>>)

(* ---------------------------- state ------------------------------------ *)
VARIABLES
  impl,                  \* "component": SimplifiedChatComponent.processPart;
                         \* "service": MessageProcessingService.processPart
  messages,              \* this.messages
  heap,                  \* the ChatMessage objects still referenced
  streamingTextMessage,  \* this.streamingTextMessage
  isModelThinking,       \* isModelThinkingSubject value
  isLoading,             \* latest value of agentService.getLoadingState()
  nextOid,               \* next object id
  streams,               \* runSse subscriptions: "unused", "open", "closed"
  pendingSends,          \* sendMessage calls suspended at await getUserMessageParts()
  historyPending,        \* getSession request of loadSessionMessages in flight
  destroyed,             \* destroyRef has fired: the component is torn down
  watch,                 \* which observation is recorded: "turns" (run),
                         \* "frames" (skipped), "errors" (errSeen, errBefore),
                         \* "sources" (srcs of the messages) or "calls"
                         \* (skipped: a sendMessage call that returned at once)
  run,                   \* observation: current partial/final sequence
  skipped,               \* observation: the frame handled by the last step
                         \* was skipped while the streaming message was in
                         \* the list (kind "malformed" or "error"), or was the
                         \* stream's next fragment after a malformed one
                         \* (kind "resumed")
  errSeen,               \* observation: some error has been reported
  errBefore,             \* observation: an error had been reported when the
                         \* most recent subscription was opened
  longRunningEvents,     \* LongRunningEventsService.longRunningEvents
  published,             \* the array longRunningEventsSubject last emitted
  nextSeq,               \* rank of the next invocation added to the tracker
  extractCall,           \* a call of extractAsyncFunctionsFromParts: its
                         \* arguments and, once it returned, its result
  requests,              \* the requests handed to agentService.runSse
  oauthCall,             \* arguments of the handleLongRunningToolOAuth call
  popup,                 \* the window of openOAuthPopup: "none", "open", "closed"
  listening,             \* listener is registered for 'message' on window
  checkClosed,           \* the interval checkClosed is set
  promise,               \* the promise of openOAuthPopup
  outcome,               \* handleLongRunningToolOAuth: "none", "sent" (then
                         \* ran), "complete", "error" (onOAuthError called)
  lastMessage,           \* the message event last dispatched to window
  posted,                \* the message the popup posted to its opener that
                         \* is not dispatched yet
  continuation,          \* the continuation stream: the chunks that arrived,
                         \* the responses array of the then callback, and
                         \* the argument onOAuthComplete was called with
  loaded,                \* one call of transformSessionEvents
  fetches,               \* artifact fetches in flight: the list position
                         \* captured for the placeholder, and the placeholder
  replay                 \* one stored event's parts and, once computed, the
                         \* messages of its replay and of its live processing

progVars == <<impl, messages, heap, streamingTextMessage, isModelThinking,
              isLoading, nextOid, streams, pendingSends, historyPending,
              destroyed>>
chatVars == <<impl, messages, heap, streamingTextMessage, isModelThinking,
              isLoading, nextOid, streams, pendingSends, historyPending,
              destroyed, watch, run, skipped, errSeen, errBefore>>
trackerVars == <<longRunningEvents, published, nextSeq, extractCall>>
oauthVars == <<oauthCall, popup, listening, checkClosed, promise, outcome,
               lastMessage, posted, continuation>>
\* the state outside the chat component
sideVars == <<trackerVars, oauthVars, replay, loaded>>
vars == <<chatVars, requests, fetches, sideVars>>
outsideTracker == <<chatVars, requests, fetches, oauthVars, replay, loaded>>
outsideOAuth == <<chatVars, fetches, trackerVars, replay, loaded>>

StreamIds == 1..MaxStreams

\* the handler-local view of the component
St == [messages |-> messages, heap |-> heap, stm |-> streamingTextMessage,
       thinking |-> isModelThinking, nextOid |-> nextOid, run |-> run]

\* objects no longer reachable from the array or the pointer are collected
Live(st) == Range(st.messages) \cup ({st.stm} \ {NULL})

\* the handler ends with the component as st (computed once)
Commit(st) ==
  \E end \in {st} :
    /\ end.nextOid <= MaxObjs + 1
    /\ \A o \in Live(end) : Len(end.heap[o].text) <= MaxTextLen
    /\ messages' = end.messages
    /\ heap' = [o \in Live(end) |-> end.heap[o]]
    /\ streamingTextMessage' = end.stm
    /\ isModelThinking' = end.thinking
    /\ nextOid' = end.nextOid
    /\ run' = end.run

\* the state after construction, recording observation w, with processPart
\* taken from one of impls
InitWatching(w, impls) ==
  /\ watch = w
  /\ impl \in impls
  /\ messages = <<>>
  /\ heap = <<>>
  /\ streamingTextMessage = NULL
  /\ isModelThinking = FALSE
  /\ isLoading = FALSE
  /\ nextOid = 1
  /\ streams = [s \in StreamIds |-> "unused"]
  /\ pendingSends = 0
  /\ historyPending = TRUE
  /\ destroyed = FALSE
  /\ run = IdleRun
  /\ skipped = NoSkip
  /\ errSeen = FALSE
  /\ errBefore = FALSE

\* [...list]: a new array with the elements of list
ArrayCopy(list) == [i \in 1..Len(list) |-> list[i]]

\* getCurrentEvents()
getCurrentEvents == ArrayCopy(longRunningEvents)

\* the tracker as constructed
TrackerIdle ==
  /\ longRunningEvents = <<>>
  /\ published = <<>>
  /\ nextSeq = 1

\* no call of extractAsyncFunctionsFromParts is followed
ExtractIdle == extractCall = NoExtractCall

\* no handleLongRunningToolOAuth call has been made
OAuthIdle ==
  /\ oauthCall = NoOAuthCall
  /\ popup = "none"
  /\ listening = FALSE
  /\ checkClosed = FALSE
  /\ promise = NoPromise
  /\ outcome = "none"
  /\ lastMessage = NoMessage
  /\ posted = NoMessage
  /\ continuation = NoContinuation

\* the services outside the chat component as constructed
SideIdle ==
  /\ TrackerIdle
  /\ ExtractIdle
  /\ OAuthIdle
  /\ requests = <<>>
  /\ fetches = {}
  /\ replay = NoReplay
  /\ loaded = NoLoaded

Init == InitWatching("turns", {"component", "service"}) /\ SideIdle

\* processStreamChunk and sendMessage call the component's own processPart
InitFrames == InitWatching("frames", {"component"}) /\ SideIdle

InitErrors == InitWatching("errors", {"component"}) /\ SideIdle

InitSources == InitWatching("sources", {"component"}) /\ SideIdle

(* ---------------------------- handlers --------------------------------- *)
\* agentService.getLoadingState() emits v and the subscriber, which is
\* subscribed until the component is destroyed, runs
BusySignal(v) ==
  /\ ~destroyed
  /\ skipped' = NoSkip
  /\ UNCHANGED <<sideVars, requests, fetches>>
  /\ isLoading' = v
  /\ Commit(LoadingCallback(St, v, isModelThinking))
  /\ UNCHANGED <<impl, destroyed, watch, streams, pendingSends, historyPending, errSeen, errBefore>>

\* loadSessionMessages: the getSession response arrives with session.events
LoadSessionMessages(events) ==
  /\ skipped' = NoSkip
  /\ UNCHANGED <<sideVars, requests, fetches>>
  /\ historyPending
  /\ historyPending' = FALSE
  /\ LET msgs == transformSessionEvents(events)
         oids == [i \in 1..Len(msgs) |-> nextOid + i - 1]
         h    == heap @@ [o \in Range(oids) |-> msgs[o - nextOid + 1]]
     IN  Commit([St EXCEPT !.messages = oids, !.heap = h,
                           !.nextOid = nextOid + Len(msgs), !.run = IdleRun])
  /\ UNCHANGED <<impl, destroyed, watch, isLoading, streams, pendingSends, errSeen, errBefore>>

\* loadSessionMessages: the request is not made (an input is empty), fails,
\* or its response carries no events
LoadSessionError ==
  /\ skipped' = NoSkip
  /\ UNCHANGED <<sideVars, requests, fetches>>
  /\ historyPending
  /\ historyPending' = FALSE
  /\ UNCHANGED <<impl, destroyed, watch, messages, heap, streamingTextMessage, isModelThinking,
                 isLoading, nextOid, streams, pendingSends, run, errSeen, errBefore>>

\* this.messages.push(m)
Push(st, m) ==
  LET a == Alloc(st, m) IN [a EXCEPT !.messages = Append(@, st.nextOid)]

\* sendMessage up to await getUserMessageParts(); a call with blank input and
\* no selected files returns at once
SendBegin(input, files) ==
  /\ skipped' = NoSkip
  /\ UNCHANGED <<sideVars, requests, fetches>>
  /\ NonBlank(input) \/ files > 0
  /\ pendingSends + Cardinality({s \in StreamIds : streams[s] # "unused"}) < MaxStreams
  /\ LET st1 == IF NonBlank(input)
                THEN Push(St, Msg("user", "text", input, FALSE, "", {}))
                ELSE St
         st2 == IF files > 0
                THEN Push(st1, Msg("user", "attachments", <<>>, FALSE, "", {}))
                ELSE st1
     IN  Commit(st2)
  /\ pendingSends' = pendingSends + 1
  /\ UNCHANGED <<impl, destroyed, watch, isLoading, streams, historyPending, errSeen, errBefore>>

\* sendMessage called with blank input and no selected files: the return at
\* the first test
SendBlank ==
  /\ skipped' = IF watch = "calls" THEN [kind |-> "blank", stream |-> 0] ELSE NoSkip
  /\ UNCHANGED <<sideVars, requests, fetches>>
  /\ UNCHANGED <<impl, destroyed, watch, messages, heap, streamingTextMessage, isModelThinking,
                 isLoading, nextOid, streams, pendingSends, historyPending, run,
                 errSeen, errBefore>>

\* sendMessage() with the given userInput and number of selected files
SendMessage(input, files) ==
  IF NonBlank(input) \/ files > 0 THEN SendBegin(input, files) ELSE SendBlank

\* sendMessage without the reset of streamingTextMessage
SendResume_KeepsPointer(s) ==
  /\ skipped' = NoSkip
  /\ UNCHANGED <<sideVars, fetches>>
  /\ requests' = Append(requests, UserRunRequest(ComponentContext))
  /\ pendingSends > 0
  /\ streams[s] = "unused"
  /\ \A t \in StreamIds : t < s => streams[t] # "unused"
  /\ pendingSends' = pendingSends - 1
  /\ streams' = [streams EXCEPT ![s] = "open"]
  /\ Commit([St EXCEPT !.run = IdleRun])
  /\ errBefore' = errSeen
  /\ UNCHANGED <<impl, destroyed, watch, isLoading, historyPending, errSeen>>

\* sendMessage after the await: reset the pointer and subscribe to runSse(req)
\* until the component is destroyed
SendResume(s) ==
  /\ ~destroyed
  /\ skipped' = NoSkip
  /\ UNCHANGED <<sideVars, fetches>>
  /\ requests' = Append(requests, UserRunRequest(ComponentContext))
  /\ pendingSends > 0
  /\ streams[s] = "unused"
  /\ \A t \in StreamIds : t < s => streams[t] # "unused"
  /\ pendingSends' = pendingSends - 1
  /\ streams' = [streams EXCEPT ![s] = "open"]
  /\ Commit([St EXCEPT !.stm = NULL, !.run = IdleRun])
  /\ errBefore' = errSeen
  /\ UNCHANGED <<impl, destroyed, watch, isLoading, historyPending, errSeen>>

\* chunkJson of a frame of stream s that parses
Chunk(frame, s) ==
  [partial |-> frame.partial, stream |-> s,
   src |-> IF watch = "sources" THEN {s} ELSE {}]

RECURSIVE ApplyParts(_, _, _, _, _)
\* for (const part of chunkJson.content.parts) processPart(part, chunkJson)
ApplyParts(st, parts, chunk, loading, useSvc) ==
  IF parts = <<>> THEN st
  ELSE LET p   == Head(parts)
           st2 == IF useSvc THEN SvcProcessPart(st, p, chunk, loading)
                  ELSE processPart(st, p, chunk, loading)
       IN  ApplyParts(IF watch = "turns"
                      THEN [st2 EXCEPT !.run = Observe(st, st2, p, chunk)]
                      ELSE st2,
                      Tail(parts), chunk, loading, useSvc)

\* processStreamChunk without the chunkJson.error test
processStreamChunk_IgnoresErrorField(st, frame, s, loading, useSvc) ==
  IF frame.raw = "errorPrefix" THEN st
  ELSE IF frame.raw = "malformed" THEN st
  ELSE ApplyParts(st, frame.parts, Chunk(frame, s), loading, useSvc)

\* processStreamChunk ending the streaming state on a parse failure
processStreamChunk_ParseFailureEndsTurn(st, frame, s, loading, useSvc) ==
  IF frame.raw = "errorPrefix" THEN st
  ELSE IF frame.raw = "malformed" THEN [st EXCEPT !.stm = NULL]
  ELSE IF frame.error THEN st
  ELSE ApplyParts(st, frame.parts, Chunk(frame, s), loading, useSvc)

\* processStreamChunk(chunk) for a frame of stream s
processStreamChunk(st, frame, s, loading, useSvc) ==
  IF frame.raw = "errorPrefix" THEN st
  ELSE IF frame.raw = "malformed" THEN st
  ELSE IF frame.error THEN st
  ELSE ApplyParts(st, frame.parts, Chunk(frame, s), loading, useSvc)

\* a non-thought text part of a partial chunk is the frame's first part
PartialTextFrame(frame) ==
  /\ SkipReason(frame) = "none"
  /\ frame.partial
  /\ frame.parts # <<>>
  /\ Truthy(frame.parts[1].text)
  /\ ~frame.parts[1].thought

\* a frame of stream s is handled
ObserveSkip(sk, s, frame) ==
  IF SkipReason(frame) # "none"
  THEN IF streamingTextMessage \in Range(messages)
       THEN [kind |-> SkipReason(frame), stream |-> s]
       ELSE NoSkip
  ELSE IF sk.kind = "malformed" /\ sk.stream = s /\ PartialTextFrame(frame)
  THEN [kind |-> "resumed", stream |-> s]
  ELSE NoSkip

\* the next callback of the runSse subscription
StreamNext(s, frame) ==
  /\ streams[s] = "open"
  /\ UNCHANGED <<impl, destroyed, watch, isLoading, streams, pendingSends, historyPending, errBefore>>
  /\ UNCHANGED <<sideVars, requests, fetches>>
  /\ skipped' = IF watch = "frames" THEN ObserveSkip(skipped, s, frame) ELSE NoSkip
  /\ errSeen' = (errSeen \/ (watch = "errors" /\ SkipReason(frame) # "none"))
  /\ Commit(processStreamChunk(St, frame, s, isLoading, impl = "service"))

\* the complete callback without the reset of streamingTextMessage
StreamComplete_KeepsPointer(s) ==
  /\ skipped' = NoSkip
  /\ UNCHANGED <<sideVars, requests, fetches>>
  /\ streams[s] = "open"
  /\ streams' = [streams EXCEPT ![s] = "closed"]
  /\ Commit([St EXCEPT !.run = IdleRun])
  /\ UNCHANGED <<impl, destroyed, watch, isLoading, pendingSends, historyPending, errSeen, errBefore>>

\* the complete callback of the runSse subscription
StreamComplete(s) ==
  /\ skipped' = NoSkip
  /\ UNCHANGED <<sideVars, requests, fetches>>
  /\ streams[s] = "open"
  /\ streams' = [streams EXCEPT ![s] = "closed"]
  /\ Commit([St EXCEPT !.stm = NULL, !.run = IdleRun])
  /\ UNCHANGED <<impl, destroyed, watch, isLoading, pendingSends, historyPending, errSeen, errBefore>>

\* the error callback of the runSse subscription
StreamError(s) ==
  /\ skipped' = NoSkip
  /\ UNCHANGED <<sideVars, requests, fetches>>
  /\ streams[s] = "open"
  /\ streams' = [streams EXCEPT ![s] = "closed"]
  /\ errSeen' = (watch = "errors")
  /\ UNCHANGED <<impl, destroyed, watch, messages, heap, streamingTextMessage, isModelThinking,
                 isLoading, nextOid, pendingSends, historyPending, run, errBefore>>

\* OAuthHandlingService.handleLongRunningToolOAuth: the authorization or the
\* continuation stream fails and onOAuthError is called; the service holds no
\* reference to the component's message list or streaming pointer
OAuthError ==
  /\ skipped' = NoSkip
  /\ UNCHANGED <<sideVars, requests, fetches>>
  /\ errSeen' = (watch = "errors")
  /\ UNCHANGED <<impl, destroyed, watch, messages, heap, streamingTextMessage, isModelThinking,
                 isLoading, nextOid, streams, pendingSends, historyPending, run,
                 errBefore>>

Next ==
  \/ \E v \in BOOLEAN : BusySignal(v)
  \/ \E h \in Histories : LoadSessionMessages(h)
  \/ LoadSessionError
  \/ \E x \in SendInputs : SendMessage(InputText(x), x[2])
  \/ \E s \in StreamIds : SendResume(s)
  \/ \E s \in StreamIds, f \in Frames : StreamNext(s, f)
  \/ \E s \in StreamIds : StreamComplete(s)
  \/ \E s \in StreamIds : StreamError(s)
  \/ OAuthError

Spec == Init /\ [][Next]_vars

\* the same program under the other observations
SpecFrames == InitFrames /\ [][Next]_vars

SpecErrors == InitErrors /\ [][Next]_vars

SpecSources == InitSources /\ [][Next]_vars

\* both implementations of processPart under chunks with parts of every
\* kind, no observation recorded
InitParts == InitWatching("parts", {"component", "service"}) /\ SideIdle

NextParts ==
  \/ \E v \in BOOLEAN : BusySignal(v)
  \/ \E h \in Histories : LoadSessionMessages(h)
  \/ LoadSessionError
  \/ \E x \in SendInputs : SendMessage(InputText(x), x[2])
  \/ \E s \in StreamIds : SendResume(s)
  \/ \E s \in StreamIds, f \in PartFrames : StreamNext(s, f)
  \/ \E s \in StreamIds : StreamComplete(s)
  \/ \E s \in StreamIds : StreamError(s)
  \/ OAuthError

SpecParts == InitParts /\ [][NextParts]_vars

\* the calls of sendMessage that return at the first test are observed
InitCalls == InitWatching("calls", {"component"}) /\ SideIdle

SpecCalls == InitCalls /\ [][Next]_vars

(* ------------------------- tracker operations -------------------------- *)
\* the chat component as constructed, no observation recorded
ChatIdle == InitWatching("off", {"component"})

InitTracker == ChatIdle /\ SideIdle

\* a chunk with longRunningToolIds arrives: the invocations extracted from
\* its parts are added
ExtractAndAdd(pendingIds, parts) ==
  LET events == extractAsyncFunctionsFromParts(pendingIds, parts)
  IN  /\ nextSeq + Len(events) <= MaxAdds + 1
      /\ longRunningEvents' = addLongRunningEvents(longRunningEvents, events, nextSeq)
      /\ published' = ArrayCopy(longRunningEvents')
      /\ nextSeq' = nextSeq + Len(events)
      /\ UNCHANGED <<outsideTracker, extractCall>>

\* removeFinishedEvents that does not emit the filtered list
RemoveFinishedEvents_NoPublish(finishedIds) ==
  /\ longRunningEvents' = removeFinishedEvents(longRunningEvents, finishedIds)
  /\ UNCHANGED <<outsideTracker, published, nextSeq, extractCall>>

\* removeFinishedEvents(finishedEvents)
RemoveFinishedEvents(finishedIds) ==
  /\ longRunningEvents' = removeFinishedEvents(longRunningEvents, finishedIds)
  /\ published' = ArrayCopy(longRunningEvents')
  /\ UNCHANGED <<outsideTracker, nextSeq, extractCall>>

\* updateEventStatus(eventId, status): the status is assigned to the found
\* object, which the emitted arrays hold too, and the list is emitted; when
\* no invocation has the id nothing is assigned or emitted
UpdateEventStatus(eventId, status) ==
  /\ longRunningEvents' = updateEventStatus(longRunningEvents, eventId, status)
  /\ published' =
       IF \E i \in 1..Len(longRunningEvents) : longRunningEvents[i].id = eventId
       THEN ArrayCopy(longRunningEvents')
       ELSE published
  /\ UNCHANGED <<outsideTracker, nextSeq, extractCall>>

\* clearAllEvents()
ClearAllEvents ==
  /\ longRunningEvents' = <<>>
  /\ published' = <<>>
  /\ UNCHANGED <<outsideTracker, nextSeq, extractCall>>

NextTracker ==
  \/ \E x \in AddInputs : ExtractAndAdd(x[1], x[2])
  \/ \E ids \in FinishedIdSets : RemoveFinishedEvents(ids)
  \/ \E id \in {"a", "b", "c"}, st \in Statuses : UpdateEventStatus(id, st)
  \/ ClearAllEvents

SpecTracker == InitTracker /\ [][NextTracker]_vars

\* extractAsyncFunctionsFromParts on its own: the arguments are drawn at the
\* start, then the call returns
InitExtract ==
  /\ ChatIdle
  /\ TrackerIdle
  /\ OAuthIdle
  /\ requests = <<>>
  /\ fetches = {}
  /\ replay = NoReplay
  /\ loaded = NoLoaded
  /\ \E ids \in PendingIdLists, ps \in PartLists :
       extractCall = ExtractCall(ids, ps, FALSE, <<>>)

ExtractReturns ==
  /\ ~extractCall.returned
  /\ extractCall' = [extractCall EXCEPT
       !.returned = TRUE,
       !.events = extractAsyncFunctionsFromParts(extractCall.pendingIds,
                                                 extractCall.parts)]
  /\ UNCHANGED <<outsideTracker, longRunningEvents, published, nextSeq>>

NextExtract == ExtractReturns

SpecExtract == InitExtract /\ [][NextExtract]_vars

(* --------------------------- OAuth handlers ---------------------------- *)
InitOAuth == ChatIdle /\ SideIdle

\* handleLongRunningToolOAuth(longRunningEvents, appName, ...) up to the
\* return of openOAuthPopup; blocked: window.open returns null
HandleLongRunningToolOAuth(func, ctx, blocked) ==
  /\ oauthCall = NoOAuthCall
  /\ oauthCall' = OAuthCall(func, ctx)
  /\ IF ~func.args.present
     THEN UNCHANGED <<popup, listening, checkClosed, promise>>
     ELSE IF blocked
     THEN /\ promise' = Promise("rejected", "Popup blocked!")
          /\ UNCHANGED <<popup, listening, checkClosed>>
     ELSE /\ popup' = "open"
          /\ listening' = TRUE
          /\ checkClosed' = TRUE
          /\ promise' = Promise("pending", "")
  /\ UNCHANGED <<outsideOAuth, continuation, posted, requests, outcome, lastMessage>>

\* listener(event) without the origin test
listener_TrustsAnyOrigin(event) ==
  IF event.authResponseUrl # ""
  THEN /\ promise' = IF promise.state = "pending"
                     THEN Promise("resolved", event.authResponseUrl)
                     ELSE promise
       /\ listening' = FALSE
  ELSE UNCHANGED <<promise, listening>>

\* the listener that resolves without removeEventListener
listener_StaysRegistered(event) ==
  IF event.origin # Origin THEN UNCHANGED <<promise, listening>>
  ELSE IF event.authResponseUrl # ""
  THEN /\ promise' = IF promise.state = "pending"
                     THEN Promise("resolved", event.authResponseUrl)
                     ELSE promise
       /\ UNCHANGED listening
  ELSE UNCHANGED <<promise, listening>>

\* listener(event): resolve and removeEventListener
listener(event) ==
  IF event.origin # Origin THEN UNCHANGED <<promise, listening>>
  ELSE IF event.authResponseUrl # ""
  THEN /\ promise' = IF promise.state = "pending"
                     THEN Promise("resolved", event.authResponseUrl)
                     ELSE promise
       /\ listening' = FALSE
  ELSE UNCHANGED <<promise, listening>>

\* a message event is dispatched to window
MessageEvent(event) ==
  /\ lastMessage' = event
  /\ IF listening THEN listener(event) ELSE UNCHANGED <<promise, listening>>
  /\ UNCHANGED <<outsideOAuth, continuation, posted, requests, oauthCall, popup, checkClosed,
                 outcome>>

\* the page in the popup calls window.opener.postMessage(m): the message
\* event is queued for the opener
PopupPosts(m) ==
  /\ popup = "open"
  /\ posted = NoMessage
  /\ posted' = m
  /\ UNCHANGED <<outsideOAuth, continuation, requests, oauthCall, popup,
                 listening, checkClosed, promise, outcome, lastMessage>>

\* the queued message event is dispatched to window
DeliverPosted ==
  /\ posted # NoMessage
  /\ posted' = NoMessage
  /\ lastMessage' = posted
  /\ IF listening THEN listener(posted) ELSE UNCHANGED <<promise, listening>>
  /\ UNCHANGED <<outsideOAuth, continuation, requests, oauthCall, popup,
                 checkClosed, outcome>>

\* the user or the authorization page closes the popup
PopupCloses ==
  /\ popup = "open"
  /\ popup' = "closed"
  /\ UNCHANGED <<outsideOAuth, continuation, posted, requests, oauthCall, listening,
                 checkClosed, promise, outcome, lastMessage>>

\* the checkClosed callback that keeps the listener registered
CheckClosedTick_KeepsListener ==
  /\ checkClosed
  /\ popup = "closed"
  /\ checkClosed' = FALSE
  /\ promise' = IF promise.state = "pending"
                THEN Promise("rejected", "Popup was closed by user")
                ELSE promise
  /\ UNCHANGED <<outsideOAuth, continuation, posted, requests, oauthCall, popup, listening,
                 outcome, lastMessage>>

\* the checkClosed callback finds popup.closed (an earlier run of the
\* callback, with the popup still open, changes nothing)
CheckClosedTick ==
  /\ checkClosed
  /\ popup = "closed"
  /\ checkClosed' = FALSE
  /\ listening' = FALSE
  /\ promise' = IF promise.state = "pending"
                THEN Promise("rejected", "Popup was closed by user")
                ELSE promise
  /\ UNCHANGED <<outsideOAuth, continuation, posted, requests, oauthCall, popup, outcome,
                 lastMessage>>

\* the then callback: sendOAuthResponse(...).subscribe(...); func is the
\* object the caller's list holds
OAuthThen ==
  /\ promise.state = "resolved"
  /\ outcome = "none"
  /\ outcome' = "sent"
  /\ requests' = Append(requests,
       sendOAuthResponse(oauthCall.func, promise.value, oauthCall.ctx.appName,
                         oauthCall.ctx.userId, oauthCall.ctx.sessionId,
                         oauthCall.ctx.functionCallEventId))
  /\ oauthCall' = [oauthCall EXCEPT !.func = FuncAfterSend(@, promise.value)]
  /\ longRunningEvents' =
       [i \in 1..Len(longRunningEvents) |->
          IF longRunningEvents[i].seq = oauthCall.func.seq
          THEN FuncAfterSend(longRunningEvents[i], promise.value)
          ELSE longRunningEvents[i]]
  /\ published' =
       [i \in 1..Len(published) |->
          IF published[i].seq = oauthCall.func.seq
          THEN FuncAfterSend(published[i], promise.value)
          ELSE published[i]]
  /\ UNCHANGED <<chatVars, fetches, nextSeq, extractCall, replay, loaded, posted,
                 continuation, popup, listening, checkClosed, promise,
                 lastMessage>>

\* the catch callback: onOAuthError(error)
OAuthCatch ==
  /\ promise.state = "rejected"
  /\ outcome = "none"
  /\ outcome' = "error"
  /\ UNCHANGED <<outsideOAuth, continuation, posted, requests, oauthCall, popup, listening,
                 checkClosed, promise, lastMessage>>

\* the next callback: JSON.parse(chunk) and responses.push(chunkJson); a
\* chunk that does not parse is logged and dropped
ContinuationNext(chunk) ==
  /\ outcome = "sent"
  /\ Len(continuation.arrived) < MaxChunks
  /\ continuation' =
       [continuation EXCEPT
          !.arrived = Append(@, chunk),
          !.responses = IF chunk.raw = "malformed" THEN @
                        ELSE Append(@, ParseChunk(chunk))]
  /\ UNCHANGED <<outsideOAuth, posted, requests, oauthCall, popup, listening,
                 checkClosed, promise, outcome, lastMessage>>

\* the continuation stream ends: complete calls onOAuthComplete(responses),
\* error calls onOAuthError(err)
ContinuationEnds(how) ==
  /\ outcome = "sent"
  /\ outcome' = how
  /\ continuation' = IF how = "complete"
                     THEN [continuation EXCEPT !.handed = continuation.responses]
                     ELSE continuation
  /\ UNCHANGED <<outsideOAuth, posted, requests, oauthCall, popup, listening,
                 checkClosed, promise, lastMessage>>

NextOAuth ==
  \/ \E f \in OAuthFuncs, c \in Contexts, b \in BOOLEAN :
       HandleLongRunningToolOAuth(f, c, b)
  \/ \E m \in Messages : MessageEvent(m)
  \/ PopupCloses
  \/ CheckClosedTick
  \/ OAuthThen
  \/ OAuthCatch
  \/ \E k \in ContinuationChunks : ContinuationNext(k)
  \/ \E how \in {"complete", "error"} : ContinuationEnds(how)

SpecOAuth == InitOAuth /\ [][NextOAuth]_vars

\* setInterval runs the checkClosed callback every second until cleared
SpecOAuthFair == SpecOAuth /\ WF_vars(CheckClosedTick)

(* ------------------- coordinator over the tracker --------------------- *)
\* handleLongRunningToolOAuth called with the tracker's current list:
\* func = longRunningEvents[0]
TriggerOAuth(ctx, blocked) ==
  /\ longRunningEvents # <<>>
  /\ HandleLongRunningToolOAuth(longRunningEvents[1], ctx, blocked)

InitCoordinator == ChatIdle /\ SideIdle

NextCoordinator ==
  \/ \E x \in AddInputs : ExtractAndAdd(x[1], x[2])
  \/ \E c \in Contexts, b \in BOOLEAN : TriggerOAuth(c, b)
  \/ \E m \in Messages : MessageEvent(m)
  \/ PopupCloses
  \/ CheckClosedTick
  \/ OAuthThen
  \/ OAuthCatch
  \/ \E how \in {"complete", "error"} : ContinuationEnds(how)

SpecCoordinator == InitCoordinator /\ [][NextCoordinator]_vars

(* ---------------------- the authorization surface --------------------- *)
InitSurface == ChatIdle /\ SideIdle

\* the wait with the messages of the popup queued before they are dispatched
NextSurface ==
  \/ \E f \in OAuthFuncs, c \in Contexts, b \in BOOLEAN :
       HandleLongRunningToolOAuth(f, c, b)
  \/ \E m \in Messages : PopupPosts(m)
  \/ DeliverPosted
  \/ PopupCloses
  \/ CheckClosedTick
  \/ OAuthThen
  \/ OAuthCatch

SpecSurface == InitSurface /\ [][NextSurface]_vars

(* ---------------------------- teardown --------------------------------- *)
\* destroyRef fires: takeUntilDestroyed ends the subscriptions of the busy
\* and thinking signals, of getSession and of every runSse stream; the
\* OAuthHandlingService, provided in root, is not told
Destroy ==
  /\ ~destroyed
  /\ destroyed' = TRUE
  /\ streams' = [s \in StreamIds |->
                   IF streams[s] = "open" THEN "closed" ELSE streams[s]]
  /\ historyPending' = FALSE
  /\ skipped' = NoSkip
  /\ UNCHANGED <<impl, watch, messages, heap, streamingTextMessage,
                 isModelThinking, isLoading, nextOid, pendingSends, run,
                 errSeen, errBefore, requests, fetches, sideVars>>

\* agentService.getLoadingState() emits v after the subscriber was removed
BusySignalDestroyed(v) ==
  /\ destroyed
  /\ isLoading' = v
  /\ skipped' = NoSkip
  /\ UNCHANGED <<impl, destroyed, watch, messages, heap, streamingTextMessage,
                 isModelThinking, nextOid, streams, pendingSends,
                 historyPending, run, errSeen, errBefore, requests, fetches,
                 sideVars>>

\* sendMessage resumes after the await in a destroyed component: the pointer
\* is reset, and takeUntilDestroyed ends the subscription before runSse is
\* subscribed to, so that no request is made and no chunk is delivered
SendResumeDestroyed ==
  /\ destroyed
  /\ pendingSends > 0
  /\ pendingSends' = pendingSends - 1
  /\ skipped' = NoSkip
  /\ Commit([St EXCEPT !.stm = NULL, !.run = IdleRun])
  /\ UNCHANGED <<impl, destroyed, watch, isLoading, streams, historyPending,
                 errSeen, errBefore, requests, fetches, sideVars>>

\* the invocation and the caller's context of the one authorization flow
TeardownFunc == LongRunningEvent("a", "auth", OAuthArgs, "pending", 1)
TeardownContext == Context("app1", "u1", "s1", "e1")

\* the template calls sendMessage while the component exists
TemplateSend(input, files) == ~destroyed /\ SendMessage(input, files)

\* the caller of the coordinator starts the flow while the component exists
StartOAuth(func, ctx, blocked) == ~destroyed /\ HandleLongRunningToolOAuth(func, ctx, blocked)

InitTeardown == ChatIdle /\ SideIdle

NextTeardown ==
  \/ \E v \in BOOLEAN : BusySignal(v)
  \/ \E v \in BOOLEAN : BusySignalDestroyed(v)
  \/ TemplateSend(Frag1, 0)
  \/ \E s \in StreamIds : SendResume(s)
  \/ SendResumeDestroyed
  \/ \E s \in StreamIds, f \in TextFrames : StreamNext(s, f)
  \/ \E s \in StreamIds : StreamComplete(s)
  \/ Destroy
  \/ StartOAuth(TeardownFunc, TeardownContext, FALSE)
  \/ \E m \in Messages : MessageEvent(m)
  \/ PopupCloses
  \/ CheckClosedTick

SpecTeardown == InitTeardown /\ [][NextTeardown]_vars

(* ------------------------- replay against live ------------------------- *)
\* the messages the component holds after processStreamChunk of one
\* non-partial chunk with the given parts, starting from an empty list
LiveMessages(parts) ==
  LET end == ApplyParts(St, parts, [partial |-> FALSE, stream |-> 1, src |-> {}],
                        FALSE, FALSE)
  IN  [i \in 1..Len(end.messages) |-> end.heap[end.messages[i]]]

\* one stored model event: its parts are drawn at the start
InitReplay ==
  /\ ChatIdle
  /\ TrackerIdle
  /\ ExtractIdle
  /\ OAuthIdle
  /\ requests = <<>>
  /\ fetches = {}
  /\ \E ps \in SeqsUpTo(ReplayParts, MaxParts) : replay = Replay(ps, FALSE, <<>>, <<>>)
  /\ loaded = NoLoaded

\* the event is replayed by transformSessionEvents, and its parts are
\* processed as a live chunk
ReplayAndLive ==
  /\ ~replay.returned
  /\ replay' = Replay(replay.parts, TRUE,
                      transformSessionEvents(<<Event("model", replay.parts)>>),
                      LiveMessages(replay.parts))
  /\ UNCHANGED <<chatVars, requests, fetches, trackerVars, oauthVars, loaded>>

NextReplay == ReplayAndLive

SpecReplay == InitReplay /\ [][NextReplay]_vars

(* --------------------------- stored sessions --------------------------- *)
\* one stored session: its events are drawn at the start
InitLoaded ==
  /\ ChatIdle
  /\ TrackerIdle
  /\ ExtractIdle
  /\ OAuthIdle
  /\ requests = <<>>
  /\ fetches = {}
  /\ replay = NoReplay
  /\ \E es \in SeqsUpTo(StoredEvents, MaxEvents) : loaded = Loaded(es, FALSE, <<>>)

\* transformSessionEvents(session.events) returns
TransformReturns ==
  /\ ~loaded.returned
  /\ loaded' = Loaded(loaded.events, TRUE, transformSessionEvents(loaded.events))
  /\ UNCHANGED <<chatVars, requests, fetches, trackerVars, oauthVars, replay>>

NextLoaded == TransformReturns

SpecLoaded == InitLoaded /\ [][NextLoaded]_vars

(* --------------------------- artifact resolver ------------------------- *)
\* The resolver is not among the sources at hand; it follows section 4.5 of
\* the specification.  The list it works on, the insertion primitive and the
\* other handlers are the component's.
\* the placeholder inserted for an artifact delta, the message that takes
\* its place once the fetch resolved, and the placeholder of a failed fetch
ArtifactPlaceholder == Msg("bot", "inlineData", <<>>, FALSE, "Loading artifact...", {})
ArtifactMessage     == Msg("bot", "inlineData", <<>>, FALSE, "artifact", {})
ArtifactFailedMsg   == Msg("bot", "inlineData", <<>>, FALSE, "Artifact failed", {})

\* a fetch in flight: the list position captured when the placeholder was
\* inserted, and the placeholder object
Fetch(index, placeholder) == [index |-> index, placeholder |-> placeholder]

IndexOf(msgs, oid) == CHOOSE i \in 1..Len(msgs) : msgs[i] = oid

InitArtifacts == ChatIdle /\ SideIdle

\* a chunk of stream s carries actions.artifactDelta with one artifact: the
\* placeholder is inserted and the fetch starts
ArtifactDelta(s) ==
  /\ streams[s] = "open"
  /\ skipped' = NoSkip
  /\ LET st1 == Insert(St, ArtifactPlaceholder)
     IN  /\ Commit(st1)
         /\ fetches' = fetches \cup {Fetch(IndexOf(st1.messages, nextOid), nextOid)}
  /\ UNCHANGED <<impl, destroyed, watch, isLoading, streams, pendingSends, historyPending,
                 errSeen, errBefore, requests, sideVars>>

\* the fetch resolves: the message at the captured position is replaced
ArtifactResolved(f) ==
  /\ f \in fetches
  /\ fetches' = fetches \ {f}
  /\ skipped' = NoSkip
  /\ IF f.index <= Len(messages)
     THEN Commit([Alloc(St, ArtifactMessage) EXCEPT !.messages[f.index] = nextOid])
     ELSE Commit(St)
  /\ UNCHANGED <<impl, destroyed, watch, isLoading, streams, pendingSends, historyPending,
                 errSeen, errBefore, requests, sideVars>>

\* the fetch fails: the error is reported and the message at the captured
\* position is shown as failed
ArtifactFailed(f) ==
  /\ f \in fetches
  /\ fetches' = fetches \ {f}
  /\ skipped' = NoSkip
  /\ errSeen' = (watch = "errors")
  /\ IF f.index <= Len(messages)
     THEN Commit([St EXCEPT !.heap[messages[f.index]] = ArtifactFailedMsg])
     ELSE Commit(St)
  /\ UNCHANGED <<impl, destroyed, watch, isLoading, streams, pendingSends, historyPending,
                 errBefore, requests, sideVars>>

NextArtifacts ==
  \/ Next
  \/ \E s \in StreamIds : ArtifactDelta(s)
  \/ \E f \in fetches : ArtifactResolved(f)
  \/ \E f \in fetches : ArtifactFailed(f)

SpecArtifacts == InitArtifacts /\ [][NextArtifacts]_vars

TypeOK ==
  /\ streamingTextMessage \in {NULL} \cup DOMAIN heap
  /\ Range(messages) \subseteq DOMAIN heap

(* ---------------------------- properties ------------------------------- *)
RECURSIVE Flatten(_)
\* the concatenation of a sequence of strings
Flatten(ts) == IF ts = <<>> THEN <<>> ELSE Head(ts) \o Flatten(Tail(ts))

\* the one message created for the current sequence is in the list with text t
OneMessageWithText(t) ==
  /\ Cardinality(run.made) = 1
  /\ \A m \in run.made : /\ m \in Range(messages)
                         /\ heap[m].role = "bot"
                         /\ heap[m].text = t

\* C1 (as stated): partial text chunks followed by one non-partial text chunk
\* of a single stream leave exactly one bot text message for the sequence,
\* whose text equals the final chunk's text.
C1_FinalTextEqualsChunkText ==
  run.phase = "final" => OneMessageWithText(run.fin)

\* C1 (amended): ... whose text is the final chunk's text as the processing
\* code stores it: unchanged in SimplifiedChatComponent.processPart, with the
\* trailing white space removed in MessageProcessingService.processPart; it
\* is never the concatenation of the partial fragments with the final text.
C1_FinalTextReplaces ==
  run.phase = "final" =>
    OneMessageWithText(IF impl = "service" THEN trimEnd(run.fin) ELSE run.fin)

\* two partial fragments were merged and then replaced by a final text that
\* differs from their concatenation and ends in white space
C1_Witness ==
  /\ run.phase = "final"
  /\ Len(run.frags) >= 2
  /\ run.fin # Flatten(run.frags)
  /\ trimEnd(run.fin) # run.fin

\* C2: partial text chunks of a single stream with no final chunk are held
\* by exactly one streaming message, whose text is the concatenation of the
\* fragments in arrival order.
C2_PartialsConcatenate ==
  run.phase = "partial" =>
    /\ streamingTextMessage # NULL
    /\ run.made = {streamingTextMessage}
    /\ OneMessageWithText(Flatten(run.frags))

\* two different fragments have been merged
C2_Witness ==
  /\ run.phase = "partial"
  /\ Len(run.frags) >= 2
  /\ run.frags[1] # run.frags[2]
  /\ heap[streamingTextMessage].text = run.frags[1] \o run.frags[2]

\* C3 (as stated): after a non-partial text part has been applied to the
\* active streaming message, the message is in the list with the final text
\* and streamingTextMessage is null.
C3_FinalClearsPointer ==
  run.phase = "final" =>
    /\ OneMessageWithText(IF impl = "service" THEN trimEnd(run.fin) ELSE run.fin)
    /\ streamingTextMessage = NULL

\* the oids of the loading placeholders in the list
Placeholders == {i \in 1..Len(messages) : heap[messages[i]].kind = "loading"}

\* C4 (as stated): the list holds at most one loading placeholder, and a
\* placeholder it holds is the last element.
C4_PlaceholderLast ==
  /\ Cardinality(Placeholders) <= 1
  /\ Placeholders \subseteq {Len(messages)}

\* q without the element x
Without(q, x) == SelectSeq(q, LAMBDA o : o # x)

\* C5: inserting a message grows the list by one, keeps every other message
\* and their order, and puts the new message last, or immediately before the
\* loading placeholder when the list ends with one.
C5_InsertionFrame ==
  LET m   == Msg("bot", "functionCall", <<>>, FALSE, "tool", {})
      st2 == Insert(St, m)
      n   == Len(messages)
  IN  /\ Len(st2.messages) = n + 1
      /\ \A o \in DOMAIN heap : st2.heap[o] = heap[o]
      /\ st2.heap[nextOid] = m
      /\ Without(st2.messages, nextOid) = messages
      /\ IF LastIsLoading(messages, heap)
         THEN st2.messages[n] = nextOid /\ st2.messages[n + 1] = messages[n]
         ELSE st2.messages[n + 1] = nextOid

\* the list ends with a placeholder and the message before it was created
\* after the placeholder: it was spliced in front of it
C5_Witness ==
  /\ Len(messages) >= 2
  /\ LastIsLoading(messages, heap)
  /\ heap[messages[Len(messages) - 1]].role = "bot"
  /\ messages[Len(messages) - 1] > messages[Len(messages)]

\* the messages of the list that are not loading placeholders
NonLoading(msgs, h) == SelectSeq(msgs, LAMBDA o : h[o].kind # "loading")

IsPrefix(p, q) == Len(p) <= Len(q) /\ SubSeq(q, 1, Len(p)) = p

\* C6 (as stated): no step removes, replaces or reorders a message that is
\* not a placeholder; the only element a step removes is the trailing
\* loading placeholder.
C6_AppendOnly ==
  [][/\ IsPrefix(NonLoading(messages, heap), NonLoading(messages', heap'))
     /\ \A o \in Range(messages) \ Range(messages') :
          heap[o].kind = "loading" /\ o = messages[Len(messages)]]_vars

\* C7 (as stated): chunks of an earlier stream never touch the streaming
\* message of the new turn, so no message holds text written by two streams.
C7_NoCrossStreamMerge ==
  \A o \in DOMAIN heap : Cardinality(heap[o].srcs) <= 1

\* C8: handling a chunk whose error field is set, with or without content
\* parts, changes no message and adds none.
C8_ErrorChunkKeepsList ==
  [][(\E s \in StreamIds : StreamNext(s, ErrorFrame) \/ StreamNext(s, ErrorPrefixFrame))
       => messages' = messages /\ heap' = heap]_vars

\* an error chunk was handled while the streaming message was in the list
C8_Witness ==
  /\ skipped.kind = "error"
  /\ streamingTextMessage \in Range(messages)
  /\ Len(heap[streamingTextMessage].text) >= 1

\* C9: a frame that fails to parse changes nothing of the component (list,
\* messages, pointer, thinking flag, subscriptions), so the frames after it
\* are handled as if it had not been sent.
C9_MalformedFrameSkipped ==
  [][(\E s \in StreamIds : StreamNext(s, MalformedFrame)) => UNCHANGED progVars]_vars

\* a malformed frame of a stream was skipped while the streaming message
\* held text, and the stream's next fragment was appended to that message
C9_Witness ==
  /\ skipped.kind = "resumed"
  /\ streamingTextMessage \in Range(messages)
  /\ Len(heap[streamingTextMessage].text) >= 2

\* the text of a text frame as processPart stores it
StoredText(f) ==
  IF ~f.partial /\ impl = "service" THEN trimEnd(f.parts[1].text) ELSE f.parts[1].text

\* the step applied the text frame f by the partial/final rules: with no
\* streaming message a new bot message holds the text (and becomes the
\* streaming message when f is partial); with one, a partial fragment is
\* appended to it and a final text replaces its text
MergedByRules(f) ==
  IF streamingTextMessage = NULL
  THEN /\ \E o \in Range(messages') \ DOMAIN heap :
            /\ heap'[o].role = "bot"
            /\ heap'[o].text = StoredText(f)
            /\ streamingTextMessage' = IF f.partial THEN o ELSE NULL
       /\ \A o \in DOMAIN heap \cap DOMAIN heap' : heap'[o] = heap[o]
  ELSE /\ streamingTextMessage' = streamingTextMessage
       /\ heap'[streamingTextMessage].text =
            IF f.partial THEN heap[streamingTextMessage].text \o StoredText(f)
            ELSE StoredText(f)
       /\ messages' = messages

\* C10: after an error has been reported a sendMessage is still accepted,
\* its subscription starts with streamingTextMessage null, and the chunks
\* handled once it is open are merged by the partial/final rules.
C10_UsableAfterError ==
  /\ [](( /\ errSeen
          /\ pendingSends + Cardinality({s \in StreamIds : streams[s] # "unused"}) < MaxStreams
          /\ nextOid <= MaxObjs )
        => ENABLED SendBegin(<<"a">>, 0))
  /\ [][\A s \in StreamIds : (errSeen /\ SendResume(s)) =>
          (streamingTextMessage' = NULL /\ streams'[s] = "open")]_vars
  /\ [][errBefore => \A f \in TextFrames :
          MergedByRules(f) \/ ~(\E s \in StreamIds : StreamNext(s, f))]_vars

\* a subscription was opened after an error, and fragments delivered since
\* then have been merged into one streaming message of the list
C10_Witness ==
  /\ errBefore
  /\ streamingTextMessage \in Range(messages)
  /\ Len(heap[streamingTextMessage].text) >= 2

\* the positions of the function-call parts of call c whose id is pending
MatchingParts(c) ==
  {i \in 1..Len(c.parts) :
     /\ c.parts[i].functionCall
     /\ c.parts[i].id \in {c.pendingIds[k] : k \in 1..Len(c.pendingIds)}}

\* C11: extractAsyncFunctionsFromParts returns, in part order, exactly one
\* pending invocation for every function-call part whose id is in pendingIds,
\* with the part's id, name and args; the other parts and the function calls
\* with other ids give nothing.
C11_ExtractPending ==
  extractCall.returned =>
    LET c   == extractCall
        idx == MatchingParts(c)
        n   == Len(c.events)
    IN  /\ n = Cardinality(idx)
        /\ \E f \in [1..n -> idx] :
             /\ \A j, k \in 1..n : j < k => f[j] < f[k]
             /\ \A k \in 1..n :
                  /\ c.events[k].id = c.parts[f[k]].id
                  /\ c.events[k].name = c.parts[f[k]].name
                  /\ c.events[k].args = c.parts[f[k]].args
                  /\ c.events[k].status = "pending"

\* two parts gave an invocation, a function call with another id gave none
C11_Witness ==
  /\ extractCall.returned
  /\ Len(extractCall.events) = 2
  /\ \E i \in 1..Len(extractCall.parts) :
       /\ extractCall.parts[i].functionCall
       /\ ~Includes(extractCall.pendingIds, extractCall.parts[i].id)
  /\ extractCall.events[1].name # extractCall.events[2].name

\* C12: the tracker never holds two invocations with the same id.
C12_OneLivePerId ==
  \A i, j \in 1..Len(longRunningEvents) :
    i # j => longRunningEvents[i].id # longRunningEvents[j].id

\* after is before without the entries whose id is in ids: the entries kept
\* are unchanged and in their order
RemovedExactly(before, after, ids) ==
  LET kept == {i \in 1..Len(before) : before[i].id \notin ids}
      n    == Len(after)
  IN  /\ n = Cardinality(kept)
      /\ \E f \in [1..n -> kept] :
           /\ \A j, k \in 1..n : j < k => f[j] < f[k]
           /\ \A k \in 1..n : after[k] = before[f[k]]

\* C13: removeFinishedEvents deletes exactly the invocations whose id is in
\* the given set and keeps the others unchanged and in order; with no such
\* id in the tracker nothing changes, and a second removal of the same ids
\* changes nothing.
C13_RemoveExactlyThose ==
  \A ids \in FinishedIdSets :
    LET before == longRunningEvents
        after  == removeFinishedEvents(before, ids)
    IN  /\ RemovedExactly(before, after, ids)
        /\ (\A i \in 1..Len(before) : before[i].id \notin ids) => after = before
        /\ removeFinishedEvents(after, ids) = after

\* the second of three invocations was removed, the first and the third
\* were kept in their order
C13_Witness ==
  /\ Len(longRunningEvents) = 2
  /\ longRunningEvents[1].seq = 1
  /\ longRunningEvents[2].seq = 3
  /\ longRunningEvents[1].id = longRunningEvents[2].id

\* C14: getFirstPendingOAuthEvent returns nothing when no pending invocation
\* carries an oauth2 credential, and otherwise the pending invocation with
\* the credential that was added first; an invocation that is not pending is
\* never returned.
C14_FirstPendingOAuth ==
  LET r       == getFirstPendingOAuthEvent(longRunningEvents)
      entries == {longRunningEvents[i] : i \in 1..Len(longRunningEvents)}
      wanted  == {e \in entries : e.status = "pending" /\ e.args.present}
  IN  /\ wanted = {} => r = NoEvent
      /\ wanted # {} => /\ r \in wanted
                        /\ \A e \in wanted : r.seq <= e.seq
      /\ r # NoEvent => r.status = "pending"

\* an invocation with a credential that is no longer pending precedes the
\* one returned, and the tracker also holds a pending one without credential
C14_Witness ==
  LET r == getFirstPendingOAuthEvent(longRunningEvents)
  IN  /\ r # NoEvent
      /\ \E i \in 1..Len(longRunningEvents) :
           /\ longRunningEvents[i].args.present
           /\ longRunningEvents[i].status # "pending"
           /\ longRunningEvents[i].seq < r.seq
      /\ \E i \in 1..Len(longRunningEvents) :
           /\ ~longRunningEvents[i].args.present
           /\ longRunningEvents[i].status = "pending"

\* C15: a message event from another origin never settles the wait of
\* openOAuthPopup; the wait is resolved only by a message event from the
\* client's own origin with a non-empty authResponseUrl, and with that URL.
C15_OnlySameOriginCompletes ==
  /\ [][(\E m \in Messages : m.origin # Origin /\ MessageEvent(m))
          => promise' = promise]_vars
  /\ [][(promise.state # "resolved" /\ promise'.state = "resolved")
          => \E m \in Messages :
               /\ MessageEvent(m)
               /\ m.origin = Origin
               /\ m.authResponseUrl # ""
               /\ promise'.value = m.authResponseUrl]_vars

\* a message from another origin carrying a URL was dispatched while the
\* listener was registered, and the wait is still pending
C15_Witness ==
  /\ promise.state = "pending"
  /\ listening
  /\ lastMessage.origin # Origin
  /\ lastMessage.origin # ""
  /\ lastMessage.authResponseUrl # ""

\* C16: once the popup is closed with the wait still pending, either a valid
\* completion signal is accepted after all or the wait ends rejected with
\* 'Popup was closed by user' and the message listener removed.
C16_ClosedPopupFailsWait ==
  (popup = "closed" /\ promise.state = "pending")
    ~> \/ promise.state = "resolved"
       \/ /\ promise = Promise("rejected", "Popup was closed by user")
          /\ ~listening

\* the popup was closed and the wait failed as cancelled by the user
C16_Witness ==
  /\ popup = "closed"
  /\ promise = Promise("rejected", "Popup was closed by user")
  /\ ~listening
  /\ ~checkClosed

\* C17: the continuation request has the appName, userId and sessionId of the
\* call, functionCallEventId as given for the declaring chunk, and exactly
\* one part, a function response with the invocation's id and name whose
\* response is the invocation's auth config with authResponseUri set to the
\* URL received and redirectUri set to the client's redirect URI.
C17_ContinuationRequest ==
  outcome = "sent" =>
    /\ Len(requests) = 1
    /\ LET req  == requests[1]
           func == oauthCall.func
       IN  /\ req.appName = oauthCall.ctx.appName
           /\ req.userId = oauthCall.ctx.userId
           /\ req.sessionId = oauthCall.ctx.sessionId
           /\ req.functionCallEventId = oauthCall.ctx.functionCallEventId
           /\ Len(req.newMessage.parts) = 1
           /\ LET fr == req.newMessage.parts[1].function_response
              IN  /\ fr.id = func.id
                  /\ fr.name = func.name
                  /\ fr.response.authResponseUri = promise.value
                  /\ fr.response.redirectUri = RedirectUri
                  /\ fr.response.authUri = func.args.authUri
                  /\ fr.response.present

\* the continuation was sent for an invocation whose stored auth config had
\* another authResponseUri and redirectUri
C17_Witness ==
  /\ outcome = "sent"
  /\ oauthCall.func.args.authResponseUri # ""
  /\ oauthCall.func.args.authResponseUri # promise.value
  /\ oauthCall.func.args.redirectUri # RedirectUri
  /\ oauthCall.ctx.appName = "app2"

\* C18: every request handed to runSse has newMessage.role "user" and
\* streaming true.
C18_RunRequestsStream ==
  \A i \in 1..Len(requests) :
    /\ requests[i].newMessage.role = "user"
    /\ "streaming" \in DOMAIN requests[i]
    /\ requests[i].streaming = TRUE

\* C20: the messages transformSessionEvents builds for a stored event are the
\* messages processStreamChunk builds for the same parts in one non-partial
\* chunk: same number, order, text, thought flag and payload.
C20_ReplayEqualsLive ==
  replay.returned => replay.stored = replay.live

\* C19: an artifact delta inserts its placeholder at once through the
\* insertion primitive; when the fetch resolves, the position captured then
\* still holds that placeholder, the message there is replaced by the
\* resolved inline data, and every other message keeps its position and
\* content, whatever was inserted in between.
C19_ArtifactReplacedInPlace ==
  /\ [][\A s \in StreamIds : ArtifactDelta(s) =>
          \E f \in fetches' \ fetches :
            /\ f.index <= Len(messages')
            /\ messages'[f.index] = f.placeholder
            /\ heap'[f.placeholder] = ArtifactPlaceholder
            /\ Without(messages', f.placeholder) = messages
            /\ \/ f.index = Len(messages')
               \/ /\ f.index = Len(messages') - 1
                  /\ LastIsLoading(messages, heap)]_vars
  /\ [][\A f \in fetches : ArtifactResolved(f) =>
          /\ f.index <= Len(messages)
          /\ messages[f.index] = f.placeholder
          /\ Len(messages') = Len(messages)
          /\ heap'[messages'[f.index]] = ArtifactMessage
          /\ \A i \in (1..Len(messages)) \ {f.index} :
               /\ messages'[i] = messages[i]
               /\ heap'[messages'[i]] = heap[messages[i]]]_vars

\* the text parts of a stored event, by position
TextPositions(event) == {i \in 1..Len(event.parts) : Truthy(event.parts[i].text)}

\* the number of messages a stored event stands for: one for its text parts
\* taken together, one for each other part, none without content parts
MessageCount(event) ==
  IF ~event.hasParts THEN 0
  ELSE (IF TextPositions(event) = {} THEN 0 ELSE 1)
         + (Len(event.parts) - Cardinality(TextPositions(event)))

RECURSIVE MessagesBefore(_, _)
\* the number of messages the events before the k-th stand for
MessagesBefore(events, k) ==
  IF k <= 1 THEN 0
  ELSE MessagesBefore(events, k - 1) + MessageCount(events[k - 1])

\* C21: the list returned for a stored session holds the events' messages
\* in event order: for each event with content parts, one text message with
\* the in-order concatenation of its text parts (when it has any), then one
\* message for each other part, all with role user when the author is user
\* and bot otherwise; an event without content parts contributes nothing.
C21_EventsBecomeMessages ==
  loaded.returned =>
    LET events == loaded.events
        out    == loaded.result
    IN  /\ Len(out) = MessagesBefore(events, Len(events) + 1)
        /\ \A k \in 1..Len(events) :
             LET e     == events[k]
                 first == MessagesBefore(events, k) + 1
                 last  == MessagesBefore(events, k + 1)
                 texts == IF TextPositions(e) = {} THEN 0 ELSE 1
             IN  /\ \A j \in first..last :
                      out[j].role = (IF e.author = "user" THEN "user" ELSE "bot")
                 /\ texts = 1 =>
                      /\ out[first].kind = "text"
                      /\ out[first].text = Flatten([i \in 1..Len(e.parts) |-> e.parts[i].text])
                 /\ \A j \in (first + texts)..last : out[j].kind # "text"

\* a user event whose text part follows another part, then a model event
\* with two different text parts, have been turned into three messages
C21_Witness ==
  /\ loaded.returned
  /\ loaded.events = <<Event("user", <<PayloadPart("functionResponse"), TextPart(Frag1)>>),
                       Event("model", <<TextPart(Frag1), TextPart(Frag2)>>)>>
  /\ Len(loaded.result) = 3

\* userInput is empty or holds white space only
Blank(x) == \A i \in 1..Len(InputText(x)) : InputText(x)[i] = " "

\* C22: sendMessage with blank input and no selected files issues no run
\* request, appends no message and leaves the streaming message alone.
C22_BlankSendIsNoOp ==
  [][\A x \in SendInputs :
       (Blank(x) /\ x[2] = 0 /\ SendMessage(InputText(x), x[2])) =>
         /\ requests' = requests
         /\ pendingSends' = pendingSends
         /\ streams' = streams
         /\ messages' = messages
         /\ heap' = heap
         /\ streamingTextMessage' = streamingTextMessage]_vars

\* sendMessage has just returned on blank input while a message is streaming
C22_Witness ==
  /\ skipped.kind = "blank"
  /\ streamingTextMessage # NULL
  /\ \E s \in StreamIds : streams[s] = "open"

\* C23 (as stated): the text of a message that a non-partial text chunk has
\* finalized stays as it is in every later step; a later text chunk of the
\* stream goes into another message.
C23_FinalizedTextIsFixed ==
  [][run.phase = "final" =>
       \A o \in run.made \cap DOMAIN heap' : heap'[o].text = heap[o].text]_vars

\* C24: the completion of a stream, and sendMessage once it subscribes to a
\* new run, leave streamingTextMessage null and the list as it was; a listed
\* message the pointer referred to is still in the list with its fields as
\* they were.
C24_CompletionAndSendClearPointer ==
  [][\A s \in StreamIds :
       (StreamComplete(s) \/ SendResume(s)) =>
         /\ streamingTextMessage' = NULL
         /\ messages' = messages
         /\ streamingTextMessage \in Range(messages) =>
              /\ streamingTextMessage \in Range(messages')
              /\ heap'[streamingTextMessage] = heap[streamingTextMessage]]_vars

\* a stream has completed, or a new one has been subscribed to, and the
\* message that was streaming is in the list
C24_Witness ==
  /\ streamingTextMessage = NULL
  /\ \E s \in StreamIds : streams[s] = "closed"
  /\ \E i \in 1..Len(messages) :
       /\ heap[messages[i]].role = "bot"
       /\ heap[messages[i]].kind = "text"
       /\ heap[messages[i]].text = Frag1 \o Frag2

\* the number of loading placeholders in a list
PlaceholderCount(msgs, h) ==
  Cardinality({i \in 1..Len(msgs) : h[msgs[i]].kind = "loading"})

\* C25 (as stated): with the busy signal false and the model not thinking the
\* list holds no loading placeholder; and a step adds a placeholder only
\* when the busy signal is true, the last message is not a placeholder and
\* no message is streaming.
C25_PlaceholderFollowsBusy ==
  /\ []((~isLoading /\ ~isModelThinking) => Placeholders = {})
  /\ [][PlaceholderCount(messages', heap') > PlaceholderCount(messages, heap) =>
          /\ isLoading'
          /\ ~LastIsLoading(messages, heap)
          /\ streamingTextMessage = NULL]_vars

\* the process-part result of a frame of stream s in the current state
Handled(s, f) == processStreamChunk(St, f, s, isLoading, impl = "service")

\* the messages of the later list msgs2 that were allocated after the
\* current state
Added(msgs2) == {o \in Range(msgs2) : o >= nextOid}

\* o was put into the later list by the insertion primitive: it is the last
\* message, or the one before a trailing loading placeholder, and the
\* messages that are not placeholders are otherwise as they were
InsertedByPrimitive(o, msgs2, heap2) ==
  /\ \/ msgs2[Len(msgs2)] = o
     \/ /\ Len(msgs2) >= 2
        /\ msgs2[Len(msgs2) - 1] = o
        /\ heap2[msgs2[Len(msgs2)]].kind = "loading"
  /\ NonLoading(Without(msgs2, o), heap2) = NonLoading(messages, heap)

\* the pointer and the text of the streaming message are as they were
StreamingUntouched(stm2, heap2) ==
  /\ stm2 = streamingTextMessage
  /\ streamingTextMessage # NULL =>
       heap2[streamingTextMessage].text = heap[streamingTextMessage].text

\* C26: a text part with the thought flag, in a partial chunk or not, puts
\* exactly one new bot message with thought = true into the list through
\* the insertion primitive, and leaves streamingTextMessage and the
\* streaming message's text as they were.  (A loading placeholder that the
\* subscriber of the thinking signal pushes in the same step is not counted.)
C26_ThoughtTextInsertsOne ==
  [][\A s \in StreamIds, f \in ThoughtFrames :
       StreamNext(s, f) =>
         /\ Cardinality({o \in Added(messages') : heap'[o].kind # "loading"}) = 1
         /\ \A o \in Added(messages') :
              heap'[o].kind # "loading" =>
                /\ heap'[o].role = "bot"
                /\ heap'[o].kind = "text"
                /\ heap'[o].thought
                /\ InsertedByPrimitive(o, messages', heap')
         /\ StreamingUntouched(streamingTextMessage', heap')]_vars

\* a thought message stands after the streaming message, whose fragments
\* have been merged and which is still the streaming message
C26_Witness ==
  /\ streamingTextMessage # NULL
  /\ \E i \in 1..Len(messages) :
       /\ messages[i] = streamingTextMessage
       /\ i < Len(messages)
       /\ heap[messages[i + 1]].thought

\* the field a payload part's message carries, and the name in it
PayloadKind(k) ==
  IF k = "executableCode" THEN "functionCall"
  ELSE IF k = "codeExecutionResult" THEN "functionResponse"
  ELSE k

PayloadName(k) ==
  IF k \in {"executableCode", "codeExecutionResult"} THEN "code_execution"
  ELSE IF k = "inlineData" THEN ""
  ELSE "tool"

\* C27 (as stated): a FunctionCall, FunctionResponse, InlineData,
\* ExecutableCode or CodeExecutionResult part puts exactly one new message
\* into the list through the insertion primitive (an ExecutableCode part as
\* a functionCall named code_execution, a CodeExecutionResult part as a
\* functionResponse named code_execution), and leaves streamingTextMessage
\* and the streaming message's text as they were.
C27_PayloadPartInsertsOne ==
  \A s \in StreamIds, k \in Payloads :
    streams[s] = "open" =>
      LET end == Handled(s, PayloadFrame(k))
      IN  /\ Cardinality(Added(end.messages)) = 1
          /\ \A o \in Added(end.messages) :
               /\ end.heap[o].role = "bot"
               /\ end.heap[o].kind = PayloadKind(k)
               /\ end.heap[o].name = PayloadName(k)
               /\ InsertedByPrimitive(o, end.messages, end.heap)
          /\ StreamingUntouched(end.stm, end.heap)

\* the chunks of PartFrames whose part carries text
TextPartFrames == {f \in PartFrames : Truthy(f.parts[1].text)}

\* C28 (as stated): a part with the thought flag and no text sets the
\* thinking signal to true and adds no message; the signal stays true while
\* parts without text are processed, and it becomes false when, and only
\* when, a part with text is processed.
C28_ThinkingUntilText ==
  /\ [](\A s \in StreamIds :
          streams[s] = "open" =>
            /\ Handled(s, BareThoughtFrame).thinking
            /\ Handled(s, BareThoughtFrame).messages = messages
            /\ \A k \in Payloads :
                 isModelThinking => Handled(s, PayloadFrame(k)).thinking
            /\ \A f \in TextPartFrames : ~Handled(s, f).thinking)
  /\ [][(isModelThinking /\ ~isModelThinking') =>
          \E s \in StreamIds, f \in TextPartFrames : StreamNext(s, f)]_vars

\* C29 (as stated): once a chunk with a top-level error field has been
\* handled, streamingTextMessage is null and the list holds no loading
\* placeholder.
C29_ErrorChunkEndsTurn ==
  skipped.kind = "error" =>
    /\ streamingTextMessage = NULL
    /\ Placeholders = {}

\* C30 (as stated): the error callback of a stream leaves
\* streamingTextMessage null and the list without a loading placeholder,
\* and issues no run request.
C30_TransportErrorEndsTurn ==
  [][\A s \in StreamIds :
       StreamError(s) =>
         /\ streamingTextMessage' = NULL
         /\ PlaceholderCount(messages', heap') = 0
         /\ requests' = requests
         /\ pendingSends' = pendingSends
         /\ \A t \in StreamIds : streams'[t] = "open" => streams[t] = "open"]_vars

\* the tracked invocation that is the object with rank seq
Tracked(list, seq) == {i \in 1..Len(list) : list[i].seq = seq}

\* C31 (as stated): triggered while a pending OAuth invocation is tracked,
\* the coordinator starts one authorization flow, for the invocation
\* getFirstPendingOAuthEvent returns, and that invocation's status is
\* running when the authorization window is opened.
C31_FlowForFirstPendingOAuth ==
  [][\A c \in Contexts, b \in BOOLEAN :
       (TriggerOAuth(c, b) /\ hasPendingOAuthEvents(longRunningEvents)) =>
         LET e == getFirstPendingOAuthEvent(longRunningEvents)
         IN  /\ oauthCall'.func.seq = e.seq
             /\ promise' # NoPromise
             /\ \A i \in Tracked(longRunningEvents', e.seq) :
                  longRunningEvents'[i].status = "running"]_vars

\* C32 (as stated): when an authorization flow fails (window blocked, window
\* closed by the user, or the continuation stream failing) the error
\* callback runs, once, and the completion callback never; the invocation
\* of the flow is then tracked with status failed, every other tracked
\* invocation and the message list are as before, and no other flow or
\* request is started.
C32_FailedFlowMarksInvocation ==
  [][/\ (outcome # "error" /\ outcome' = "error") =>
          /\ Len(longRunningEvents') = Len(longRunningEvents)
          /\ \A i \in 1..Len(longRunningEvents) :
               longRunningEvents'[i] =
                 IF longRunningEvents[i].seq = oauthCall.func.seq
                 THEN [longRunningEvents[i] EXCEPT !.status = "failed"]
                 ELSE longRunningEvents[i]
          /\ messages' = messages
          /\ heap' = heap
          /\ oauthCall' = oauthCall
          /\ requests' = requests
     /\ outcome = "error" => outcome' = "error"]_vars

\* C33: an authorization wait settles at most once and consumes one
\* completion signal: once it is settled its outcome never changes, whatever
\* message arrives and whether or not the popup closes; once it is resolved
\* the message listener is not registered any more; and at most one
\* continuation request is ever built for it.
C33_WaitSettlesOnce ==
  [][/\ promise.state \in {"resolved", "rejected"} => promise' = promise
     /\ promise'.state = "resolved" => ~listening'
     /\ Len(requests') <= 1]_vars

\* the wait resolved with one signal, a different valid signal arrived
\* afterwards, the popup closed and the timer saw it, and the one
\* continuation request was sent
C33_Witness ==
  /\ promise.state = "resolved"
  /\ lastMessage.origin = Origin
  /\ lastMessage.authResponseUrl \notin {"", promise.value}
  /\ popup = "closed"
  /\ ~checkClosed
  /\ outcome = "sent"
  /\ Len(requests) = 1

\* the chunks of a sequence that parse, parsed, in their order
ParsedChunks(chunks) ==
  LET ok == SelectSeq(chunks, LAMBDA c : c.raw # "malformed")
  IN  [i \in 1..Len(ok) |-> ParseChunk(ok[i])]

\* C34 (as stated): once the continuation stream has ended, by completing
\* or by failing, every chunk that arrived on it has been handed on for
\* assembly, once and in the order of arrival.
C34_ContinuationChunksHandedOn ==
  outcome \in {"complete", "error"} =>
    continuation.handed = ParsedChunks(continuation.arrived)

\* the loading placeholders of a list
PlaceholdersOf(msgs, h) == {o \in Range(msgs) : h[o].kind = "loading"}

\* C35 (as stated): the subscriber of the busy and thinking signals does
\* not run in the middle of applying a part: in every state, applying the
\* part of a chunk that arrives on an open stream neither pushes nor pops a
\* loading placeholder, which only that subscriber does.
C35_NoCallbackInsidePart ==
  \A s \in StreamIds, f \in PartFrames :
    streams[s] = "open" =>
      LET end == Handled(s, f)
      IN  PlaceholdersOf(end.messages, end.heap) =
            PlaceholdersOf(messages, heap)

\* C36 (as stated): once the component is destroyed no step changes the
\* message list or a message, and no message listener and no close-polling
\* timer of an authorization wait is registered.
C36_TeardownReleasesHandlers ==
  /\ [][destroyed => (messages' = messages /\ heap' = heap)]_vars
  /\ [](destroyed => (~listening /\ ~checkClosed))

\* C37: building and sending the continuation request leaves the tracked
\* invocation as it was, id, name, status and auth config: the request
\* carries the new authResponseUri and redirectUri, the invocation of the
\* call and the tracker's list do not.
C37_ContinuationCopiesAuthConfig ==
  [][(outcome = "none" /\ outcome' = "sent") =>
       /\ longRunningEvents' = longRunningEvents
       /\ oauthCall'.func = oauthCall.func
       /\ Len(requests') = Len(requests) + 1
       /\ LET fr == requests'[Len(requests')].newMessage.parts[1].function_response
          IN  /\ fr.response.authResponseUri = promise.value
              /\ fr.response.redirectUri = RedirectUri]_vars

\* the continuation was sent for the tracked invocation, whose auth config
\* still has no authResponseUri and the old redirectUri
C37_Witness ==
  /\ outcome = "sent"
  /\ Len(requests) = 1
  /\ \E i \in 1..Len(longRunningEvents) :
       /\ longRunningEvents[i].seq = oauthCall.func.seq
       /\ longRunningEvents[i] = oauthCall.func
       /\ longRunningEvents[i].args.authResponseUri = ""
       /\ longRunningEvents[i].args.redirectUri # RedirectUri
       /\ requests[1].newMessage.parts[1].function_response.response
            # longRunningEvents[i].args

\* C38 (as stated): whenever streamingTextMessage is not null it is an
\* element of the message list, whatever the order of the history
\* response, sends, chunks, completions and busy-signal changes.
C38_StreamingMessageIsListed ==
  streamingTextMessage # NULL => streamingTextMessage \in Range(messages)

\* a completion signal the listener accepts
ValidSignal(m) == m.origin = Origin /\ m.authResponseUrl # ""

\* C39 (as stated): once the popup has posted a valid same-origin
\* completion signal, the wait is not rejected as closed by the user,
\* whether the close-polling timer runs before or after the signal is
\* dispatched, and the dispatch of the signal leaves the wait resolved, with
\* the signal's URL if it was still pending.
C39_PostedSignalWins ==
  /\ [](ValidSignal(posted) =>
         promise # Promise("rejected", "Popup was closed by user"))
  /\ [][(ValidSignal(posted) /\ posted' = NoMessage) =>
          /\ promise'.state = "resolved"
          /\ promise.state = "pending" =>
               promise'.value = posted.authResponseUrl]_vars

\* C40: after every tracker operation the array last emitted on the
\* tracker's observable equals the list getCurrentEvents returns: the same
\* invocations in the same order with the same statuses.
C40_PublishedIsCurrent ==
  published = getCurrentEvents

\* invocations were added, one was set running and another removed, and
\* the emitted array is the remaining list
C40_Witness ==
  /\ published = getCurrentEvents
  /\ Len(published) >= 1
  /\ nextSeq > Len(longRunningEvents) + 1
  /\ \E i \in 1..Len(published) : published[i].status = "running"
====
